---- MODULE Spec2Model ----
(***************************************************************************)
(* Model of the htpi-admin-service authorization and login core:           *)
(*   - the access checks of AuthService, OrganizationController and        *)
(*     UserController (pure predicates over a requester dictionary),       *)
(*   - role -> permission resolution of AdminUser and User,                *)
(*   - the organization/user handlers that gate on those checks,           *)
(*   - AuthService.authenticate_admin and AuthService.create_session,      *)
(*   - generate_token / verify_token,                                      *)
(*   - NATSService.request as a call in progress, and the subscription     *)
(*     wrapper that dispatches inbound messages,                           *)
(*   - the AdminController handlers and concurrent create requests,        *)
(*   - sessions (create_session, validate_session, logout), and the        *)
(*     interleaving of the subscriptions' handlers.                        *)
(* All storage is remote: a nested request is answered by an envelope the  *)
(* remote side chooses, a publish either is handed to the bus or raises.   *)
(***************************************************************************)
EXTENDS Integers, Sequences, FiniteSets, TLC

VARIABLES
    guard_in,       \* the (requester, permission, org_id) an access check is asked about
    guard_out,      \* the five checks' answers for guard_in, or Pending
    resolve_in,     \* the identity whose permissions are resolved
    resolve_out,    \* the resolved permissions, or Pending
    msg,            \* the inbound message being handled, or NoMsg
    reply,          \* the envelope msg.respond was called with, or NoReply
    sent,           \* the nested requests and publishes issued for msg, in order
    now,            \* datetime.utcnow(), in ticks
    admin_users,    \* the admin document the remote store holds, or NoData
    login_pc,       \* "idle", or "lookup" while authenticate_admin awaits its request
    login_in,       \* email and password of the current / last login attempt
    login_response, \* the envelope the attempt's admin.get_by_email request returned
    login_result,   \* what authenticate_admin returned: NoData (None) or {token, admin}
    login_pubs,     \* the publish calls the attempt made, in order
    login_exit,     \* the return statement the attempt left through
    logins_started, \* login attempts begun
    tokens_returned,    \* login attempts that returned a token
    session_calls,      \* calls of AuthService.create_session
    session_requests,   \* admin.create_session requests handed to the bus
    token_in,       \* an issued token, what was done to it since, and when it is verified
    token_out,      \* what verify_token returned for token_in, or Pending
    request_pc,     \* NATSService.request: "idle", "waiting" for the reply, or "returned"
    request_in,     \* subject, payload and connection state of the call
    request_out,    \* what the call returned (an envelope) or raised
    request_event,  \* what ended the call
    request_waited,  \* seconds the call has been waiting for its reply
    inbox,          \* inbound messages the client has received and not yet dispatched
    handled,        \* the messages dispatched so far, each with what became of it
    loop_alive,     \* the client's dispatch of inbound messages is running
    received,        \* inbound messages received so far
    creators,       \* the create handlers in progress: where each stands and what it replied
    store,           \* the documents the remote store has created, in order
    session_issued, \* what the last successful login returned: {token, admin}, or NoData
    session_store,  \* the session records the remote store holds, in order of creation
    session_creates,    \* create_session calls made with the token of session_issued
    session_last,    \* the last create_session / validate_session / logout call and its result
    task_queue,     \* per subscription, the inbound messages accepted and not yet dispatched
    task_running,   \* the handlers suspended in their nested request
    task_done,      \* the messages whose handler has returned
    task_accepted,  \* inbound messages accepted so far
    task_login,      \* authenticate_admin's lookup: not started, awaiting its reply, or ended
    startup,        \* create_super_admin: where it stands and what its lookup returned
    org_doc         \* the organization document the store holds for user.create's limit check

guardVars   == <<guard_in, guard_out>>
resolveVars == <<resolve_in, resolve_out>>
handlerVars == <<msg, reply, sent>>
loginVars   == <<now, admin_users, login_pc, login_in, login_response, login_result,
                 login_pubs, login_exit, logins_started, tokens_returned,
                 session_calls, session_requests>>
tokenVars == <<token_in, token_out>>
requestVars == <<request_pc, request_in, request_out, request_event, request_waited>>
dispatchVars == <<inbox, handled, loop_alive, received>>
createVars == <<creators, store>>
sessionVars == <<session_issued, session_store, session_creates, session_last>>
taskVars == <<task_queue, task_running, task_done, task_accepted, task_login>>
provisionVars == <<startup, org_doc>>
vars == <<guard_in, guard_out, resolve_in, resolve_out, msg, reply, sent,
          now, admin_users, login_pc, login_in, login_response, login_result,
          login_pubs, login_exit, logins_started, tokens_returned,
          session_calls, session_requests,
          token_in, token_out,
          request_pc, request_in, request_out, request_event, request_waited,
          inbox, handled, loop_alive, received,
          creators, store,
          session_issued, session_store, session_creates, session_last,
          task_queue, task_running, task_done, task_accepted, task_login,
          startup, org_doc>>

(***************************************************************************)
(* Values                                                                  *)
(***************************************************************************)
Pending == [pending |-> TRUE]
NoId    == "None"       \* Python None for an absent admin_id / user_id
NoOrg   == "None"       \* Python None for an absent org_id
NoMsg   == [subject |-> "None"]

\* Reply envelopes {success, data?, error?{code}}.
NoData  == [none |-> TRUE]      \* Python None / JSON null
Ok(d)   == [success |-> TRUE, data |-> d, code |-> "none"]
Err(c)  == [success |-> FALSE, data |-> NoData, code |-> c]
NoReply == Err("no-reply")      \* msg.respond has not been called

Orgs     == {"org-1", "org-2"}
AdminIds == {"admin-1"}
UserIds  == {"user-1", "user-2"}

\* Permission strings the access checks are asked about in the guard model.
GuardPerms == {"org:update", "user:create"}

\* A requester dictionary as the handlers read it: data.get('requester', {}).
RequesterOver(perms) ==
    [is_super_admin : BOOLEAN,
     admin_id       : AdminIds \cup {NoId},
     user_id        : {"user-1", NoId},
     permissions    : perms,
     org_ids        : SUBSET Orgs]

(***************************************************************************)
(* AuthService access checks                                               *)
(***************************************************************************)
AuthService_has_permission(admin_data, permission) ==
    IF admin_data.is_super_admin THEN TRUE
    ELSE permission \in admin_data.permissions

\* AuthService.can_access_org without its "empty means all orgs" disjunct.
AuthService_can_access_org_NoEmptyScope(admin_data, org_id) ==
    IF admin_data.is_super_admin THEN TRUE
    ELSE org_id \in admin_data.org_ids

AuthService_can_access_org(admin_data, org_id) ==
    IF admin_data.is_super_admin THEN TRUE
    ELSE org_id \in admin_data.org_ids \/ Cardinality(admin_data.org_ids) = 0

(***************************************************************************)
(* OrganizationController access checks                                    *)
(***************************************************************************)
\* OrganizationController._has_permission testing the key's presence, not membership.
OrganizationController_has_permission_AnyList(requester, permission) ==
    IF requester.is_super_admin THEN TRUE
    ELSE requester.permissions # {} \/ permission \in requester.permissions

OrganizationController_has_permission(requester, permission) ==
    IF requester.is_super_admin THEN TRUE
    ELSE permission \in requester.permissions

OrganizationController_can_access_org(requester, org_id) ==
    IF requester.is_super_admin THEN TRUE
    ELSE requester.org_ids = {} \/ org_id \in requester.org_ids

(***************************************************************************)
(* UserController access check                                             *)
(***************************************************************************)
\* UserController._has_permission without the super-admin short cut.
UserController_has_permission_NoSuper(requester, permission, org_id) ==
    IF requester.admin_id # NoId THEN
        LET has_perm == permission \in requester.permissions IN
        IF org_id # NoOrg THEN
            LET can_access == requester.org_ids = {} \/ org_id \in requester.org_ids
            IN has_perm /\ can_access
        ELSE has_perm
    ELSE IF requester.user_id # NoId THEN
        permission \in requester.permissions
    ELSE FALSE

UserController_has_permission(requester, permission, org_id) ==
    IF requester.is_super_admin THEN TRUE
    ELSE IF requester.admin_id # NoId THEN
        LET has_perm == permission \in requester.permissions IN
        IF org_id # NoOrg THEN
            LET can_access == requester.org_ids = {} \/ org_id \in requester.org_ids
            IN has_perm /\ can_access
        ELSE has_perm
    ELSE IF requester.user_id # NoId THEN
        permission \in requester.permissions
    ELSE FALSE

(***************************************************************************)
(* Guard model: one access question, answered by every check               *)
(***************************************************************************)
GuardInit ==
    /\ guard_in \in [requester  : RequesterOver(SUBSET GuardPerms),
                     permission : GuardPerms,
                     org_id     : Orgs \cup {NoOrg}]
    /\ guard_out = Pending
    /\ resolve_in = Pending /\ resolve_out = Pending
    /\ msg = NoMsg /\ reply = NoReply /\ sent = <<>>
    /\ now = 0 /\ admin_users = NoData /\ login_pc = "idle"
    /\ login_in = NoData /\ login_response = NoReply /\ login_result = NoData
    /\ login_pubs = <<>> /\ login_exit = "none"
    /\ logins_started = 0 /\ tokens_returned = 0
    /\ session_calls = 0 /\ session_requests = <<>>
    /\ token_in = Pending /\ token_out = Pending
    /\ request_pc = "idle" /\ request_in = Pending /\ request_out = Pending /\ request_event = "none" /\ request_waited = 0
    /\ inbox = <<>> /\ handled = <<>> /\ loop_alive = TRUE /\ received = 0
    /\ creators = <<>> /\ store = <<>>
    /\ session_issued = NoData /\ session_store = <<>> /\ session_creates = 0 /\ session_last = Pending
    /\ task_queue = <<>> /\ task_running = {} /\ task_done = {} /\ task_accepted = 0 /\ task_login = NoData
    /\ startup = NoData /\ org_doc = NoData

Authorize ==
    /\ guard_in # Pending
    /\ guard_out = Pending
    /\ guard_out' =
         [auth_has_permission  |->
              AuthService_has_permission(guard_in.requester, guard_in.permission),
          auth_can_access_org  |->
              AuthService_can_access_org(guard_in.requester, guard_in.org_id),
          org_has_permission   |->
              OrganizationController_has_permission(guard_in.requester, guard_in.permission),
          org_can_access_org   |->
              OrganizationController_can_access_org(guard_in.requester, guard_in.org_id),
          user_has_permission  |->
              UserController_has_permission(guard_in.requester, guard_in.permission,
                                            guard_in.org_id)]
    /\ UNCHANGED <<guard_in, resolveVars, handlerVars, loginVars, tokenVars, requestVars, dispatchVars, createVars, sessionVars, taskVars, provisionVars>>

SpecGuard == GuardInit /\ [][Authorize]_vars

GuardDone == guard_out # Pending
GuardNonSuper == GuardDone /\ ~guard_in.requester.is_super_admin
GuardHasPerm == guard_in.permission \in guard_in.requester.permissions
GuardOrgNamed == guard_in.org_id # NoOrg
GuardOutOfScope ==
    /\ guard_in.requester.org_ids # {}
    /\ GuardOrgNamed
    /\ guard_in.org_id \notin guard_in.requester.org_ids

(* C1: a requester whose is_super_admin flag is true is answered true by     *)
(* every access check, for every permission and every org id, also a         *)
(* permission absent from its list and an org id absent from its scope.      *)
C1_SuperAdminAlwaysAllowed ==
    (GuardDone /\ guard_in.requester.is_super_admin) =>
        /\ guard_out.auth_has_permission
        /\ guard_out.auth_can_access_org
        /\ guard_out.org_has_permission
        /\ guard_out.org_can_access_org
        /\ guard_out.user_has_permission

C1_Witness ==
    /\ GuardDone
    /\ guard_in.requester.is_super_admin
    /\ ~GuardHasPerm
    /\ GuardOutOfScope
    /\ guard_out.user_has_permission
    /\ guard_out.auth_can_access_org

(* C2: for a non-super-admin requester with a non-empty org scope, a check   *)
(* naming an org id outside that scope returns false, in                     *)
(* AuthService.can_access_org, OrganizationController._can_access_org and    *)
(* every branch of UserController._has_permission.                           *)
C2_OutOfScopeDenied ==
    (GuardNonSuper /\ GuardOutOfScope) =>
        /\ ~guard_out.auth_can_access_org
        /\ ~guard_out.org_can_access_org
        /\ ~guard_out.user_has_permission

(* C4: for a non-super-admin requester a permission check returns false      *)
(* whenever the permission is not in the requester's permission set,         *)
(* whatever the org id and the org scope.                                    *)
C4_MissingPermissionDenied ==
    (GuardNonSuper /\ ~GuardHasPerm) =>
        /\ ~guard_out.auth_has_permission
        /\ ~guard_out.org_has_permission
        /\ ~guard_out.user_has_permission

C4_Witness ==
    /\ GuardNonSuper
    /\ ~GuardHasPerm
    /\ guard_in.requester.permissions # {}
    /\ guard_in.requester.admin_id # NoId
    /\ guard_in.org_id \in guard_in.requester.org_ids
    /\ ~guard_out.user_has_permission

(* C5 as stated: for every non-super-admin requester with an empty org       *)
(* scope, every access check returns true for every org id when the          *)
(* permission is in the requester's permission set.                          *)
C5_EmptyScopeAllowsEveryRequester ==
    (GuardNonSuper /\ guard_in.requester.org_ids = {} /\ GuardHasPerm /\ GuardOrgNamed) =>
        /\ guard_out.auth_has_permission
        /\ guard_out.auth_can_access_org
        /\ guard_out.org_has_permission
        /\ guard_out.org_can_access_org
        /\ guard_out.user_has_permission

(* C5 amended: with an empty org scope and the permission held, the          *)
(* AuthService and OrganizationController checks return true for every org  *)
(* id; UserController._has_permission returns true exactly when the          *)
(* requester also carries an admin_id or a user_id.                          *)
C5_EmptyScopeAllowsIdentified ==
    (GuardNonSuper /\ guard_in.requester.org_ids = {} /\ GuardHasPerm) =>
        /\ guard_out.auth_has_permission
        /\ guard_out.auth_can_access_org
        /\ guard_out.org_has_permission
        /\ guard_out.org_can_access_org
        /\ guard_out.user_has_permission <=>
               (guard_in.requester.admin_id # NoId \/ guard_in.requester.user_id # NoId)

C5_Witness ==
    /\ GuardNonSuper
    /\ guard_in.requester.org_ids = {}
    /\ GuardHasPerm
    /\ GuardOrgNamed
    /\ guard_in.requester.admin_id # NoId
    /\ guard_out.user_has_permission
    /\ guard_out.auth_can_access_org
(***************************************************************************)
(* Role -> permission resolution                                           *)
(***************************************************************************)
MaxList == 2    \* longest explicit / custom permission list drawn

Range(f) == {f[i] : i \in DOMAIN f}
Reverse(f) == [i \in 1..Len(f) |-> f[Len(f) + 1 - i]]
SeqsUpTo(S, n) == UNION {[1..k -> S] : k \in 0..n}

AdminRole ==
    <<"super_admin", "org_admin", "billing_admin", "clinical_admin",
      "support_admin", "read_only">>

\* list(AdminPermission): the enumeration in definition order.
AdminPermission ==
    <<"user:create", "user:read", "user:update", "user:delete", "user:suspend",
      "org:create", "org:read", "org:update", "org:delete", "org:suspend",
      "billing:view", "billing:update", "billing:export",
      "clinical:view", "clinical:audit", "clinical:export",
      "system:config", "system:monitor", "system:audit",
      "report:view", "report:create", "report:export">>

AdminRolePermissions(role) ==
    CASE role = "super_admin" -> AdminPermission
      [] role = "org_admin" ->
           <<"user:create", "user:read", "user:update", "user:suspend",
             "org:read", "org:update", "billing:view", "clinical:view",
             "report:view", "report:create">>
      [] role = "billing_admin" ->
           <<"billing:view", "billing:update", "billing:export",
             "report:view", "report:export">>
      [] role = "clinical_admin" ->
           <<"clinical:view", "clinical:audit", "clinical:export",
             "report:view", "report:create">>
      [] role = "support_admin" ->
           <<"user:read", "org:read", "clinical:view", "system:monitor">>
      [] role = "read_only" ->
           <<"user:read", "org:read", "billing:view", "clinical:view",
             "report:view">>

\* AdminUser.set_permissions_by_role: v is the explicit list given for the
\* field, role the already validated role.
AdminUser_set_permissions_by_role(v, role) ==
    IF v = <<>> THEN AdminRolePermissions(role) ELSE v

UserRole == <<"owner", "admin", "biller", "provider", "staff", "read_only">>

\* list(UserPermission): the enumeration in definition order.
UserPermission ==
    <<"patient:create", "patient:read", "patient:update", "patient:delete",
      "insurance:create", "insurance:read", "insurance:update",
      "insurance:delete", "insurance:verify",
      "form:create", "form:read", "form:update", "form:delete", "form:submit",
      "claim:submit", "claim:read", "claim:update", "claim:batch",
      "report:view", "report:export",
      "org:settings:view", "org:settings:update",
      "user:invite", "user:manage">>

\* The members p with p.value.startswith('org:settings').
OrgSettingsPermissions == {"org:settings:view", "org:settings:update"}

User_get_role_permissions(role) ==
    CASE role = "owner" -> UserPermission
      [] role = "admin" ->
           SelectSeq(UserPermission, LAMBDA q : q \notin OrgSettingsPermissions)
      [] role = "biller" ->
           <<"patient:read", "insurance:create", "insurance:read",
             "insurance:update", "insurance:verify", "form:create",
             "form:read", "form:update", "form:submit", "claim:submit",
             "claim:read", "claim:update", "claim:batch", "report:view",
             "report:export">>
      [] role = "provider" ->
           <<"patient:create", "patient:read", "patient:update",
             "insurance:read", "form:create", "form:read", "form:update",
             "claim:read", "report:view">>
      [] role = "staff" ->
           <<"patient:create", "patient:read", "patient:update",
             "insurance:read", "form:read", "claim:read">>
      [] OTHER ->
           <<"patient:read", "insurance:read", "form:read", "claim:read",
             "report:view">>

\* get_all_permissions leaving the custom permissions out of the sum.
User_get_all_permissions_NoCustom(role, permissions, custom_permissions) ==
    Range(User_get_role_permissions(role) \o permissions)

\* User.get_all_permissions: list(set(role + explicit + custom)); the order of
\* list(set(...)) is unspecified, so the value is the set.
User_get_all_permissions(role, permissions, custom_permissions) ==
    Range(User_get_role_permissions(role) \o permissions \o custom_permissions)

\* Explicit and custom grants the resolution model draws its lists from.
AdminGrants  == {"org:suspend", "user:read"}
UserGrants   == {"patient:delete", "report:view"}
CustomGrants == {"custom:export", "report:view"}

ResolveInit ==
    /\ \/ resolve_in \in [kind : {"admin"}, role : Range(AdminRole),
                          permissions : SeqsUpTo(AdminGrants, MaxList),
                          custom_permissions : {<<>>}]
       \/ resolve_in \in [kind : {"user"}, role : Range(UserRole),
                          permissions : SeqsUpTo(UserGrants, MaxList),
                          custom_permissions : SeqsUpTo(CustomGrants, MaxList)]
    /\ resolve_out = Pending
    /\ guard_in = Pending /\ guard_out = Pending
    /\ msg = NoMsg /\ reply = NoReply /\ sent = <<>>
    /\ now = 0 /\ admin_users = NoData /\ login_pc = "idle"
    /\ login_in = NoData /\ login_response = NoReply /\ login_result = NoData
    /\ login_pubs = <<>> /\ login_exit = "none"
    /\ logins_started = 0 /\ tokens_returned = 0
    /\ session_calls = 0 /\ session_requests = <<>>
    /\ token_in = Pending /\ token_out = Pending
    /\ request_pc = "idle" /\ request_in = Pending /\ request_out = Pending /\ request_event = "none" /\ request_waited = 0
    /\ inbox = <<>> /\ handled = <<>> /\ loop_alive = TRUE /\ received = 0
    /\ creators = <<>> /\ store = <<>>
    /\ session_issued = NoData /\ session_store = <<>> /\ session_creates = 0 /\ session_last = Pending
    /\ task_queue = <<>> /\ task_running = {} /\ task_done = {} /\ task_accepted = 0 /\ task_login = NoData
    /\ startup = NoData /\ org_doc = NoData

ResolveAdmin ==
    /\ resolve_out = Pending
    /\ resolve_in.kind = "admin"
    /\ resolve_out' =
         [permissions |->
              AdminUser_set_permissions_by_role(resolve_in.permissions, resolve_in.role)]
    /\ UNCHANGED <<resolve_in, guardVars, handlerVars, loginVars, tokenVars, requestVars, dispatchVars, createVars, sessionVars, taskVars, provisionVars>>

ResolveUser ==
    /\ resolve_out = Pending
    /\ resolve_in.kind = "user"
    /\ resolve_out' =
         [permissions |->
              User_get_all_permissions(resolve_in.role, resolve_in.permissions,
                                       resolve_in.custom_permissions)]
    /\ UNCHANGED <<resolve_in, guardVars, handlerVars, loginVars, tokenVars, requestVars, dispatchVars, createVars, sessionVars, taskVars, provisionVars>>

ResolveNext == ResolveAdmin \/ ResolveUser

SpecResolve == ResolveInit /\ [][ResolveNext]_vars

ResolveDone == resolve_out # Pending
\* The resolved permissions as a set, whichever container the code returned.
ResolvedSet ==
    IF resolve_in.kind = "admin" THEN Range(resolve_out.permissions)
    ELSE resolve_out.permissions
RoleDefaults ==
    IF resolve_in.kind = "admin" THEN Range(AdminRolePermissions(resolve_in.role))
    ELSE Range(User_get_role_permissions(resolve_in.role))

TimeoutEnvelope       == Err("TIMEOUT")
RequestFailedEnvelope == Err("REQUEST_FAILED")

\* What a remote responder may answer besides its data: an error of its own.
RemoteReplies(datas) == {Ok(d) : d \in datas} \cup {Err("DB_ERROR")}

\* NATSService.request that sends once more when the first attempt got no
\* reply.
NATSService_request_Retry(subject, serializable, remote) ==
    IF ~serializable
    THEN {[env |-> RequestFailedEnvelope, log |-> <<>>]}
    ELSE LET entry == [op |-> "request", subject |-> subject, ok |-> TRUE] IN
         {[env |-> e, log |-> <<entry>>] : e \in remote}
         \cup {[env |-> e, log |-> <<entry, entry>>] :
                   e \in remote \cup {TimeoutEnvelope, RequestFailedEnvelope}}

\* NATSService.request: json.dumps(data) raises on a payload that is not JSON
\* serializable and nothing is sent; otherwise the remote envelope, or the
\* synthesized TIMEOUT / REQUEST_FAILED envelope. Each result is paired with
\* the entry the call adds to the handler's log of sent messages.
NATSService_request(subject, serializable, remote) ==
    IF ~serializable
    THEN {[env |-> RequestFailedEnvelope, log |-> <<>>]}
    ELSE {[env |-> e, log |-> <<[op |-> "request", subject |-> subject, ok |-> TRUE]>>] :
             e \in remote \cup {TimeoutEnvelope, RequestFailedEnvelope}}

\* model.dict() that json.dumps can encode.
ModelDictSerializable_Json == TRUE

\* A pydantic model's .dict() keeps datetime objects (created_at, expires_at,
\* period_start, ...), which json.dumps cannot encode.
ModelDictSerializable == FALSE

\* NATSService.publish: hands the message to the bus, or logs and re-raises.
NATSService_publish(subject) ==
    {[raised |-> FALSE, log |-> <<[op |-> "publish", subject |-> subject, ok |-> TRUE]>>],
     [raised |-> TRUE,  log |-> <<[op |-> "publish", subject |-> subject, ok |-> FALSE]>>]}

Forbidden     == Err("FORBIDDEN")
\* An except clause that reports the exception's class name as the code.
InternalError_ClassName == Err("KeyError")
InternalError == Err("INTERNAL_ERROR")

Outcome(r, log, org) == [reply |-> r, sent |-> log, org_id |-> org]

\* A run of awaited publishes followed by msg.respond(final): the first publish
\* that raises lands in the handler's except clause, which replies
\* INTERNAL_ERROR.
RECURSIVE PublishThenRespond(_, _, _, _)
PublishThenRespond(log, subjects, final, org) ==
    IF subjects = <<>> THEN {Outcome(final, log, org)}
    ELSE UNION {
           IF pb.raised THEN {Outcome(InternalError, log \o pb.log, org)}
           ELSE PublishThenRespond(log \o pb.log, Tail(subjects), final, org)
         : pb \in NATSService_publish(Head(subjects)) }

(***************************************************************************)
(* Handlers: each maps one inbound message to the set of ways its handling *)
(* can end, one per choice of the remote replies and publish results.      *)
(***************************************************************************)
MaxPerms == 2   \* most permissions in a handler model requester's list

HandlerPerms ==
    {"org:update", "org:suspend", "org:read",
     "user:create", "user:invite", "user:manage", "user:read"}

HandlerRequesters ==
    RequesterOver({P \in SUBSET HandlerPerms : Cardinality(P) <= MaxPerms})

\* Stored documents the remote store may answer with.
UserDocs == [id : UserIds, org_id : Orgs]
OrgDocs  == {[current_users |-> 0, max_users |-> 1], [current_users |-> 1, max_users |-> 1]}
AnyDoc   == [id |-> "doc"]

Truthy(d) == d # NoData

RequesterId(requester) ==
    IF requester.admin_id # NoId THEN requester.admin_id ELSE requester.user_id

Salts     == {"salt-1"}
\* bcrypt.hashpw: the digest carries the salt it was computed with.
bcrypt_hashpw(password, salt) == [salt |-> salt, password |-> password]
\* AuthService.hash_password
AuthService_hash_password(password, salt) == bcrypt_hashpw(password, salt)

\* The entries a call adds to the log, with the payload the call was given.
WithPayload(log, payload) ==
    [i \in DOMAIN log |-> [op |-> log[i].op, subject |-> log[i].subject,
                           ok |-> log[i].ok, payload |-> payload]]

\* The updates dict of an update message: the fields it names, each with the
\* value it asks for.
NewValue(field) ==
    IF field \in {"is_super_admin", "is_active"} THEN TRUE ELSE "new"
UpdatesOver(fields) == {[k \in F |-> NewValue(k)] : F \in SUBSET fields}
UserUpdateFields  == {"first_name", "role", "password"}
AdminUpdateFields == {"first_name", "is_super_admin", "password"}

\* user_controller.py:245-248
allowed_fields ==
    {"first_name", "last_name", "preferences", "notification_settings", "password"}
\* {k: v for k, v in updates.items() if k in allowed_fields}
Restrict(updates, fields) == [k \in DOMAIN updates \cap fields |-> updates[k]]

\* if 'password' in updates: updates['password_hash'] =
\* hash_password(updates.pop('password'))
HashPasswordUpdate(updates) ==
    IF "password" \notin DOMAIN updates THEN {updates}
    ELSE { [k \in (DOMAIN updates \ {"password"}) \cup {"password_hash"} |->
               IF k = "password_hash"
               THEN AuthService_hash_password(updates["password"], salt)
               ELSE updates[k]] : salt \in Salts }

\* updates['updated_at'] = utcnow().isoformat(); updates['updated_by'] = by
Stamped(updates, by) ==
    [k \in DOMAIN updates \cup {"updated_at", "updated_by"} |->
        IF k = "updated_at" THEN [iso |-> "utcnow"]
        ELSE IF k = "updated_by" THEN by
        ELSE updates[k]]

\* OrganizationController.handle_update_organization
handle_update_organization(data) ==
    IF ~OrganizationController_has_permission(data.requester, "org:update")
    THEN {Outcome(Forbidden, <<>>, data.org_id)}
    ELSE IF ~OrganizationController_can_access_org(data.requester, data.org_id)
    THEN {Outcome(Forbidden, <<>>, data.org_id)}
    ELSE UNION {
           IF rq.env.success
           THEN PublishThenRespond(rq.log, <<"organization.updated">>, rq.env, data.org_id)
           ELSE {Outcome(rq.env, rq.log, data.org_id)}
         : rq \in NATSService_request("db.update", TRUE, RemoteReplies({AnyDoc})) }

\* OrganizationController.handle_suspend_organization
handle_suspend_organization(data) ==
    IF ~OrganizationController_has_permission(data.requester, "org:suspend")
    THEN {Outcome(Forbidden, <<>>, data.org_id)}
    ELSE UNION {
           IF rq.env.success
           THEN PublishThenRespond(rq.log, <<"user.suspend_all", "organization.suspended">>,
                                   rq.env, data.org_id)
           ELSE {Outcome(rq.env, rq.log, data.org_id)}
         : rq \in NATSService_request("db.update", TRUE, RemoteReplies({AnyDoc})) }

\* OrganizationController.handle_get_organization_stats: the three gathered
\* requests are sent; OrganizationStats(org_id=None) fails validation, and
\* json.dumps of stats.dict() (datetime period_start / period_end) raises, so
\* the authorized path ends in the except clause.
handle_get_organization_stats(data) ==
    IF ~OrganizationController_has_permission(data.requester, "org:read")
    THEN {Outcome(Forbidden, <<>>, data.org_id)}
    ELSE IF ~OrganizationController_can_access_org(data.requester, data.org_id)
    THEN {Outcome(Forbidden, <<>>, data.org_id)}
    ELSE { LET log == r1.log \o r2.log \o r3.log IN
           IF data.org_id = NoOrg THEN Outcome(InternalError, log, data.org_id)
           ELSE IF ~ModelDictSerializable THEN Outcome(InternalError, log, data.org_id)
           ELSE Outcome(Ok(AnyDoc), log, data.org_id)
         : r1 \in NATSService_request("user.get_stats", TRUE, RemoteReplies({AnyDoc})),
           r2 \in NATSService_request("patient.get_stats", TRUE, RemoteReplies({AnyDoc})),
           r3 \in NATSService_request("claim.get_stats", TRUE, RemoteReplies({AnyDoc})) }
\* The org document read at user_controller.py:74-75: an empty dict (no data
\* key) takes the .get defaults, which are below the limit.
EmptyDoc == [empty |-> TRUE]
LimitReached(org) ==
    IF org = EmptyDoc THEN FALSE ELSE org.current_users >= org.max_users

\* UserController.handle_create_user
handle_create_user(data) ==
    IF ~UserController_has_permission(data.requester, "user:create", data.org_id)
    THEN {Outcome(Forbidden, <<>>, data.org_id)}
    ELSE IF ~data.valid \/ data.org_id = NoOrg
    THEN {Outcome(InternalError, <<>>, data.org_id)}       \* User(**user_data) raises
    ELSE UNION {
      IF Truthy(existing.env.data)
      THEN {Outcome(Err("ALREADY_EXISTS"), existing.log, data.org_id)}
      ELSE UNION {
        LET log2 == existing.log \o org_response.log IN
        IF org_response.env.success /\ org_response.env.data = NoData
        THEN {Outcome(InternalError, log2, data.org_id)}   \* None.get raises
        ELSE IF org_response.env.success /\ LimitReached(org_response.env.data)
        THEN {Outcome(Err("LIMIT_EXCEEDED"), log2, data.org_id)}
        ELSE UNION {
          IF response.env.success
          THEN PublishThenRespond(log2 \o response.log,
                   <<"organization.increment_users", "email.send_welcome", "user.created">>,
                   Ok(response.env.data), data.org_id)
          ELSE {Outcome(response.env, log2 \o response.log, data.org_id)}
        : response \in NATSService_request("db.create", ModelDictSerializable,
                                           RemoteReplies({AnyDoc})) }
      : org_response \in NATSService_request("db.find_by_id", TRUE,
                             RemoteReplies(OrgDocs \cup {NoData, EmptyDoc})) }
    : existing \in NATSService_request("db.find_one", TRUE,
                                       RemoteReplies({NoData, AnyDoc})) }

\* UserController._get_org_name: one request, any reply gives a name.
UserController_get_org_name ==
    {WithPayload(rq.log, [collection |-> "organizations"]) :
        rq \in NATSService_request("db.find_by_id", TRUE, RemoteReplies({NoData, AnyDoc}))}

\* UserController._get_user_name: the users collection first, admin_users when
\* that gave no document.
UserController_get_user_name ==
    UNION {
      IF r1.env.success /\ Truthy(r1.env.data)
      THEN {WithPayload(r1.log, [collection |-> "users"])}
      ELSE {WithPayload(r1.log, [collection |-> "users"])
              \o WithPayload(r2.log, [collection |-> "admin_users"]) :
               r2 \in NATSService_request("db.find_by_id", TRUE,
                                          RemoteReplies({NoData, AnyDoc}))}
    : r1 \in NATSService_request("db.find_by_id", TRUE, RemoteReplies({NoData, AnyDoc})) }

\* UserController.handle_invite_user
handle_invite_user(data) ==
    IF ~UserController_has_permission(data.requester, "user:invite", data.org_id)
    THEN {Outcome(Forbidden, <<>>, data.org_id)}
    ELSE UNION {
      IF Truthy(existing.env.data)
      THEN {Outcome(Err("ALREADY_EXISTS"), existing.log, data.org_id)}
      ELSE IF ~data.valid \/ data.org_id = NoOrg \/ RequesterId(data.requester) = NoId
      THEN {Outcome(InternalError, existing.log, data.org_id)}   \* UserInvite(...) raises
      ELSE UNION {
        IF response.env.success
        THEN UNION { PublishThenRespond(existing.log \o response.log \o l1 \o l2,
                         <<"email.send_invite">>, Ok(response.env.data), data.org_id)
                   : l1 \in UserController_get_org_name, l2 \in UserController_get_user_name }
        ELSE {Outcome(response.env, existing.log \o response.log, data.org_id)}
      : response \in NATSService_request("db.create", ModelDictSerializable,
                                         RemoteReplies({AnyDoc})) }
    : existing \in NATSService_request("db.find_one", TRUE,
                                       RemoteReplies({NoData, AnyDoc})) }

\* The user documents db.find_by_id may return for an id.
UserLookup(user_id) == RemoteReplies({NoData} \cup {d \in UserDocs : d.id = user_id})

\* UserController.handle_update_user
handle_update_user(data) ==
    UNION {
      IF ~user_response.env.success
      THEN {Outcome(user_response.env, user_response.log, NoOrg)}
      ELSE IF user_response.env.data = NoData
      THEN {Outcome(InternalError, user_response.log, NoOrg)}    \* None.get raises
      ELSE
        LET org_id     == user_response.env.data.org_id
            is_self    == data.requester.user_id = data.user_id
            can_manage == UserController_has_permission(data.requester, "user:manage", org_id)
            permitted  == IF is_self /\ ~can_manage
                          THEN Restrict(data.updates, allowed_fields)
                          ELSE data.updates
        IN
        IF ~(is_self \/ can_manage)
        THEN {Outcome(Forbidden, user_response.log, org_id)}
        ELSE UNION {
          LET updates == Stamped(hashed, RequesterId(data.requester))
              log     == user_response.log \o
                         WithPayload(response.log,
                             [collection |-> "users", id |-> data.user_id,
                              updates |-> updates])
          IN
          IF response.env.success
          THEN { Outcome(IF pb.raised THEN InternalError ELSE response.env,
                         log \o WithPayload(pb.log,
                                    [user_id |-> data.user_id, org_id |-> org_id,
                                     updates |-> updates]),
                         org_id) :
                 pb \in NATSService_publish("user.updated") }
          ELSE {Outcome(response.env, log, org_id)}
        : response \in NATSService_request("db.update", TRUE, RemoteReplies({AnyDoc})),
          hashed \in HashPasswordUpdate(permitted) }
    : user_response \in NATSService_request("db.find_by_id", TRUE, UserLookup(data.user_id)) }

\* UserController.handle_suspend_user
handle_suspend_user(data) ==
    UNION {
      IF ~user_response.env.success
      THEN {Outcome(user_response.env, user_response.log, NoOrg)}
      ELSE IF user_response.env.data = NoData
      THEN {Outcome(InternalError, user_response.log, NoOrg)}    \* None.get raises
      ELSE
        LET org_id == user_response.env.data.org_id IN
        IF ~UserController_has_permission(data.requester, "user:manage", org_id)
        THEN {Outcome(Forbidden, user_response.log, org_id)}
        ELSE UNION {
          IF response.env.success
          THEN PublishThenRespond(user_response.log \o response.log,
                   <<"auth.invalidate_user_sessions", "user.suspended">>, response.env, org_id)
          ELSE {Outcome(response.env, user_response.log \o response.log, org_id)}
        : response \in NATSService_request("db.update", TRUE, RemoteReplies({AnyDoc})) }
    : user_response \in NATSService_request("db.find_by_id", TRUE, UserLookup(data.user_id)) }

\* UserController.handle_list_users
handle_list_users(data) ==
    IF ~UserController_has_permission(data.requester, "user:read", data.org_id)
    THEN {Outcome(Forbidden, <<>>, data.org_id)}
    ELSE {Outcome(rq.env, rq.log, data.org_id) :
             rq \in NATSService_request("db.find", TRUE, RemoteReplies({AnyDoc}))}

(***************************************************************************)
(* Handler model: one inbound message, handled to its end                  *)
(***************************************************************************)
\* Payloads naming an organization, and payloads naming a user.
OrgMessages ==
    [requester : HandlerRequesters, org_id : Orgs \cup {NoOrg},
     user_id : {NoId}, valid : BOOLEAN]
UserMessages ==
    [requester : HandlerRequesters, org_id : {NoOrg},
     user_id : UserIds \cup {NoId}, valid : {TRUE}]
\* Payloads of user.update: a user and the updates asked for.
UserUpdateMessages ==
    [requester : HandlerRequesters, org_id : {NoOrg},
     user_id : UserIds \cup {NoId}, valid : {TRUE}, updates : UpdatesOver(UserUpdateFields)]
Plain(M) == {m \in M : m.valid}

HandlerInit ==
    /\ msg = NoMsg /\ reply = NoReply /\ sent = <<>>
    /\ guard_in = Pending /\ guard_out = Pending
    /\ resolve_in = Pending /\ resolve_out = Pending
    /\ now = 0 /\ admin_users = NoData /\ login_pc = "idle"
    /\ login_in = NoData /\ login_response = NoReply /\ login_result = NoData
    /\ login_pubs = <<>> /\ login_exit = "none"
    /\ logins_started = 0 /\ tokens_returned = 0
    /\ session_calls = 0 /\ session_requests = <<>>
    /\ token_in = Pending /\ token_out = Pending
    /\ request_pc = "idle" /\ request_in = Pending /\ request_out = Pending /\ request_event = "none" /\ request_waited = 0
    /\ inbox = <<>> /\ handled = <<>> /\ loop_alive = TRUE /\ received = 0
    /\ creators = <<>> /\ store = <<>>
    /\ session_issued = NoData /\ session_store = <<>> /\ session_creates = 0 /\ session_last = Pending
    /\ task_queue = <<>> /\ task_running = {} /\ task_done = {} /\ task_accepted = 0 /\ task_login = NoData
    /\ startup = NoData /\ org_doc = NoData

\* message_handler(msg) -> handler(data, msg), run to the handler's return
\* with outcome o.
Dispatch(subject, data, o) ==
    /\ msg' = [subject |-> subject, data |-> data, org_id |-> o.org_id]
    /\ reply' = o.reply
    /\ sent' = o.sent
    /\ UNCHANGED <<guardVars, resolveVars, loginVars, tokenVars, requestVars, dispatchVars, createVars, sessionVars, taskVars, provisionVars>>

OrganizationUpdate ==
    /\ msg = NoMsg
    /\ \E data \in Plain(OrgMessages) : \E o \in handle_update_organization(data) :
           Dispatch("organization.update", data, o)
OrganizationSuspend ==
    /\ msg = NoMsg
    /\ \E data \in Plain(OrgMessages) : \E o \in handle_suspend_organization(data) :
           Dispatch("organization.suspend", data, o)
OrganizationGetStats ==
    /\ msg = NoMsg
    /\ \E data \in Plain(OrgMessages) : \E o \in handle_get_organization_stats(data) :
           Dispatch("organization.get_stats", data, o)
UserCreate ==
    /\ msg = NoMsg
    /\ \E data \in OrgMessages : \E o \in handle_create_user(data) :
           Dispatch("user.create", data, o)
UserInvite ==
    /\ msg = NoMsg
    /\ \E data \in OrgMessages : \E o \in handle_invite_user(data) :
           Dispatch("user.invite", data, o)
UserUpdate ==
    /\ msg = NoMsg
    /\ \E data \in UserUpdateMessages : \E o \in handle_update_user(data) :
           Dispatch("user.update", data, o)
UserSuspend ==
    /\ msg = NoMsg
    /\ \E data \in UserMessages : \E o \in handle_suspend_user(data) :
           Dispatch("user.suspend", data, o)
UserList ==
    /\ msg = NoMsg
    /\ \E data \in Plain(OrgMessages) : \E o \in handle_list_users(data) :
           Dispatch("user.list", data, o)

HandlerNext ==
    \/ OrganizationUpdate \/ OrganizationSuspend \/ OrganizationGetStats
    \/ UserCreate \/ UserInvite \/ UserUpdate \/ UserSuspend \/ UserList

SpecHandlers == HandlerInit /\ [][HandlerNext]_vars

Handled == msg # NoMsg
\* The organization the handled message acted on lies outside the non-empty
\* scope of its non-super-admin requester.
TargetOutOfScope ==
    /\ Handled
    /\ ~msg.data.requester.is_super_admin
    /\ msg.data.requester.org_ids # {}
    /\ msg.org_id # NoOrg
    /\ msg.org_id \notin msg.data.requester.org_ids

(* C3: every handler acting on a named organization replies FORBIDDEN when   *)
(* the requester is not a super admin, has a non-empty org scope and the     *)
(* target org is outside that scope.                                         *)
C3_OutOfScopeForbidden ==
    TargetOutOfScope => reply = Forbidden

(***************************************************************************)
(* Login: AuthService.authenticate_admin and AuthService.create_session.   *)
(***************************************************************************)
MaxTime   == 1      \* the clock runs over 0..MaxTime
MaxLogins == 2      \* login attempts per behaviour

JWT_SECRET           == "your-secret-key-here"
JWT_EXPIRATION_DELTA == 3600
SUPER_ADMIN_EMAIL       == "admin@htpi.com"
DEFAULT_ADMIN_PASSWORD  == "changeme123"

Emails    == {SUPER_ADMIN_EMAIL, "nobody@htpi.com"}
Passwords == {DEFAULT_ADMIN_PASSWORD, "guess"}

\* admin_data.get('password_hash', '') of a document that has no digest.
EmptyHash == [empty |-> TRUE]
\* bcrypt.checkpw raises ValueError ("Invalid salt") on a string that is not
\* a bcrypt digest.
bcrypt_checkpw_raises(hashed) == hashed = EmptyHash
\* AuthService.verify_password, for a well-formed digest.
AuthService_verify_password(password, hashed) ==
    bcrypt_hashpw(password, hashed.salt) = hashed

Lock(t) == [iso |-> t]
LockTimes == 1..MaxTime

\* An enrolled MFA secret (mfa_secret is None for an identity without MFA).
MfaSecret == [base32 |-> "secret"]

\* role, explicit permissions, super-admin flag and MFA secret of the stored
\* documents.
AdminProfiles ==
    { [role |-> "super_admin", permissions |-> <<>>, is_super_admin |-> TRUE,
       mfa_secret |-> MfaSecret],
      [role |-> "org_admin",   permissions |-> <<>>, is_super_admin |-> FALSE,
       mfa_secret |-> NoData],
      [role |-> "read_only",   permissions |-> <<"org:suspend">>, is_super_admin |-> FALSE,
       mfa_secret |-> MfaSecret] }

\* The admin_users documents the store may hold. valid tells whether the
\* document passes AdminUser's field validation.
AdminDocs ==
    { [id |-> "admin-1", email |-> SUPER_ADMIN_EMAIL,
       role |-> p.role, permissions |-> p.permissions,
       is_super_admin |-> p.is_super_admin,
       is_active |-> a, locked_until |-> l, password_hash |-> h,
       mfa_secret |-> p.mfa_secret, valid |-> v] :
      p \in AdminProfiles, a \in BOOLEAN,
      l \in {NoData} \cup {Lock(t) : t \in LockTimes},
      h \in {EmptyHash} \cup {AuthService_hash_password(pw, st) : pw \in Passwords, st \in Salts},
      v \in BOOLEAN }

\* db.find_one on admin_users with filter {email, is_active: True}: the store
\* is remote; it answers with no document, or with the document of that
\* email, which it may return whether or not it applied the is_active filter.
db_find_one_admin(email) ==
    IF admin_users = NoData \/ admin_users.email # email THEN {NoData}
    ELSE IF admin_users.is_active THEN {admin_users}
    ELSE {NoData, admin_users}

\* AdminController.handle_get_admin_by_email relays the store's envelope.
handle_get_admin_by_email(email) ==
    { Outcome(rq.env, rq.log, NoOrg) :
        rq \in NATSService_request("db.find_one", TRUE,
                                   RemoteReplies(db_find_one_admin(email))) }

\* The validated AdminUser built from a stored document: the validator fills
\* empty permissions from the role.
AdminUser(admin_data) ==
    [id |-> admin_data.id, email |-> admin_data.email, role |-> admin_data.role,
     permissions |-> AdminUser_set_permissions_by_role(admin_data.permissions, admin_data.role),
     is_super_admin |-> admin_data.is_super_admin,
     is_active |-> admin_data.is_active,
     locked_until |-> admin_data.locked_until,
     password_hash |-> admin_data.password_hash,
     mfa_secret |-> admin_data.mfa_secret]

\* admin_user.dict() with nothing excluded.
AdminView_Full(admin_user) == admin_user

\* admin_user.dict(exclude={'password_hash', 'mfa_secret'})
AdminView(admin_user) ==
    [id |-> admin_user.id, email |-> admin_user.email, role |-> admin_user.role,
     permissions |-> admin_user.permissions,
     is_super_admin |-> admin_user.is_super_admin,
     is_active |-> admin_user.is_active,
     locked_until |-> admin_user.locked_until]

\* HMAC-SHA256 of the signing input under a key: equal digests mean equal
\* input and equal key.
HS256(signing_input, key) == [signed |-> signing_input, key |-> key]

\* base64url text of a byte string. The text is more than the bytes: the final
\* character carries bits that belong to no byte, and characters outside the
\* alphabet can be present; slack is what of that the text holds (0 for the
\* text the encoder emits).
base64url_encode(bytes) == [bytes |-> bytes, slack |-> 0]
\* jwt.utils.base64url_decode -> base64.urlsafe_b64decode, which is lenient:
\* it drops the excess bits and the characters outside the alphabet.
base64url_decode(text) == text.bytes

\* jwt.encode with HS256: the payload segment and the encoded signature over it.
jwt_encode(payload, key) ==
    [payload |-> payload, signature |-> base64url_encode(HS256(payload, key))]

ExpiredSignatureError == [error |-> "ExpiredSignatureError"]
InvalidTokenError     == [error |-> "InvalidTokenError"]

\* jwt.decode that verifies the signature and ignores exp.
jwt_decode_NoExpiry(token, key, t) ==
    IF base64url_decode(token.signature) # HS256(token.payload, key)
    THEN {InvalidTokenError}
    ELSE {token.payload}

\* jwt.decode at time t: the signature is verified first, then exp. The
\* library version is not pinned; releases differ on whether exp = now is
\* already expired.
jwt_decode(token, key, t) ==
    IF base64url_decode(token.signature) # HS256(token.payload, key)
    THEN {InvalidTokenError}
    ELSE IF token.payload.exp < t THEN {ExpiredSignatureError}
    ELSE IF token.payload.exp = t THEN {ExpiredSignatureError, token.payload}
    ELSE {token.payload}

\* AuthService.generate_token at time t.
AuthService_generate_token(admin_user, t) ==
    jwt_encode([admin_id |-> admin_user.id, email |-> admin_user.email,
                role |-> admin_user.role, permissions |-> admin_user.permissions,
                is_super_admin |-> admin_user.is_super_admin,
                exp |-> t + JWT_EXPIRATION_DELTA, iat |-> t],
               JWT_SECRET)

\* verify_token that re-reads role, permissions and the super-admin flag from
\* the stored identity instead of trusting the token's claims.
AuthService_verify_token_Fresh(token, t) ==
    { IF r \in {ExpiredSignatureError, InvalidTokenError} THEN NoData
      ELSE IF admin_users = NoData THEN r
      ELSE [r EXCEPT !.role = admin_users.role,
                     !.permissions = AdminUser(admin_users).permissions,
                     !.is_super_admin = admin_users.is_super_admin] :
      r \in jwt_decode(token, JWT_SECRET, t) }

\* AuthService.verify_token at time t: the payload, or None for either error.
AuthService_verify_token(token, t) ==
    { IF r \in {ExpiredSignatureError, InvalidTokenError} THEN NoData ELSE r :
      r \in jwt_decode(token, JWT_SECRET, t) }

LoginPublish(subject, payload) ==
    { [raised |-> pb.raised,
       call |-> [subject |-> subject, payload |-> payload, ok |-> ~pb.raised]] :
      pb \in NATSService_publish(subject) }

LoginReturn(result, pubs, exit) == [result |-> result, pubs |-> pubs, exit |-> exit]

\* The pre-verification checks with the lock examined before the active flag.
PreVerifyCheck_LockFirst(admin_data, t) ==
    IF admin_data.locked_until # NoData /\ admin_data.locked_until.iso > t THEN "locked"
    ELSE IF ~admin_data.is_active THEN "inactive"
    ELSE "pass"

\* The pre-verification checks without the lock.
PreVerifyCheck_NoLock(admin_data, t) ==
    IF ~admin_data.is_active THEN "inactive" ELSE "pass"

\* authenticate_admin, the checks on the document before the password is
\* verified: active first, then the lock.
PreVerifyCheck(admin_data, t) ==
    IF ~admin_data.is_active THEN "inactive"
    ELSE IF admin_data.locked_until # NoData /\ admin_data.locked_until.iso > t THEN "locked"
    ELSE "pass"

\* An exception that leaves authenticate_admin instead of a returned value.
Raised == [raised |-> TRUE]

\* The matched branch without the enclosing try/except: a failing publish or
\* a rejected document propagates to the caller.
LoginMatched_Propagates(admin_data, t) ==
    UNION {
      IF p1.raised THEN {LoginReturn(Raised, <<p1.call>>, "raised")}
      ELSE UNION {
        IF p2.raised THEN {LoginReturn(Raised, <<p1.call, p2.call>>, "raised")}
        ELSE IF ~admin_data.valid
        THEN {LoginReturn(Raised, <<p1.call, p2.call>>, "raised")}
        ELSE {LoginReturn([token |-> AuthService_generate_token(AdminUser(admin_data), t),
                           admin |-> AdminView(AdminUser(admin_data))],
                          <<p1.call, p2.call>>, "success")}
        : p2 \in LoginPublish("admin.update_last_login",
                              [admin_id |-> admin_data.id, last_login |-> t]) }
      : p1 \in LoginPublish("admin.update_login_attempts",
                            [admin_id |-> admin_data.id, reset |-> TRUE]) }

\* authenticate_admin after verify_password returned True.
LoginMatched(admin_data, t) ==
    UNION {
      IF p1.raised THEN {LoginReturn(NoData, <<p1.call>>, "exception")}
      ELSE UNION {
        IF p2.raised THEN {LoginReturn(NoData, <<p1.call, p2.call>>, "exception")}
        ELSE IF ~admin_data.valid
        THEN {LoginReturn(NoData, <<p1.call, p2.call>>, "exception")}
        ELSE {LoginReturn([token |-> AuthService_generate_token(AdminUser(admin_data), t),
                           admin |-> AdminView(AdminUser(admin_data))],
                          <<p1.call, p2.call>>, "success")}
        : p2 \in LoginPublish("admin.update_last_login",
                              [admin_id |-> admin_data.id, last_login |-> t]) }
      : p1 \in LoginPublish("admin.update_login_attempts",
                            [admin_id |-> admin_data.id, reset |-> TRUE]) }

\* AuthService.authenticate_admin from the envelope of its request on: the
\* set of (returned value, publish calls, return statement) it can produce.
AuthService_authenticate_admin(response, password, t) ==
    IF ~response.success THEN {LoginReturn(NoData, <<>>, "lookup_failed")}
    ELSE IF ~Truthy(response.data) THEN {LoginReturn(NoData, <<>>, "not_found")}
    ELSE LET admin_data == response.data
             check == PreVerifyCheck(admin_data, t) IN
      IF check # "pass" THEN {LoginReturn(NoData, <<>>, check)}
      ELSE IF bcrypt_checkpw_raises(admin_data.password_hash)
      THEN {LoginReturn(NoData, <<>>, "exception")}
      ELSE IF ~AuthService_verify_password(password, admin_data.password_hash)
      THEN { IF pb.raised THEN LoginReturn(NoData, <<pb.call>>, "exception")
                          ELSE LoginReturn(NoData, <<pb.call>>, "wrong_password")
             : pb \in LoginPublish("admin.update_login_attempts",
                                   [admin_id |-> admin_data.id, increment |-> TRUE]) }
      ELSE LoginMatched(admin_data, t)

LoginInit ==
    /\ guard_in = Pending /\ guard_out = Pending
    /\ resolve_in = Pending /\ resolve_out = Pending
    /\ msg = NoMsg /\ reply = NoReply /\ sent = <<>>
    /\ now = 0 /\ admin_users \in AdminDocs \cup {NoData}
    /\ login_pc = "idle"
    /\ login_in = NoData /\ login_response = NoReply /\ login_result = NoData
    /\ login_pubs = <<>> /\ login_exit = "none"
    /\ logins_started = 0 /\ tokens_returned = 0
    /\ session_calls = 0 /\ session_requests = <<>>
    /\ token_in = Pending /\ token_out = Pending
    /\ request_pc = "idle" /\ request_in = Pending /\ request_out = Pending /\ request_event = "none" /\ request_waited = 0
    /\ inbox = <<>> /\ handled = <<>> /\ loop_alive = TRUE /\ received = 0
    /\ creators = <<>> /\ store = <<>>
    /\ session_issued = NoData /\ session_store = <<>> /\ session_creates = 0 /\ session_last = Pending
    /\ task_queue = <<>> /\ task_running = {} /\ task_done = {} /\ task_accepted = 0 /\ task_login = NoData
    /\ startup = NoData /\ org_doc = NoData

\* datetime.utcnow() advances.
Tick ==
    /\ now < MaxTime
    /\ now' = now + 1
    /\ UNCHANGED <<tokenVars, requestVars, dispatchVars, createVars, sessionVars, taskVars, provisionVars, guardVars, resolveVars, handlerVars, admin_users, login_pc, login_in,
                   login_response, login_result, login_pubs, login_exit,
                   logins_started, tokens_returned, session_calls, session_requests>>

\* authenticate_admin is called and awaits its admin.get_by_email request.
LoginStart ==
    /\ login_pc = "idle"
    /\ logins_started < MaxLogins
    /\ \E email \in Emails, password \in Passwords :
          login_in' = [email |-> email, password |-> password]
    /\ login_pc' = "lookup"
    /\ logins_started' = logins_started + 1
    /\ login_response' = NoReply /\ login_result' = NoData
    /\ login_pubs' = <<>> /\ login_exit' = "none"
    /\ UNCHANGED <<tokenVars, requestVars, dispatchVars, createVars, sessionVars, taskVars, provisionVars, guardVars, resolveVars, handlerVars, now, admin_users,
                   tokens_returned, session_calls, session_requests>>

\* The request returns and authenticate_admin runs to its return statement.
LoginFinish ==
    /\ login_pc = "lookup"
    /\ \E rq \in NATSService_request("admin.get_by_email", TRUE,
                     {o.reply : o \in handle_get_admin_by_email(login_in.email)}) :
       \E r \in AuthService_authenticate_admin(rq.env, login_in.password, now) :
          /\ login_response' = rq.env
          /\ login_result' = r.result
          /\ login_pubs' = r.pubs
          /\ login_exit' = r.exit
          /\ tokens_returned' = IF r.result # NoData THEN tokens_returned + 1
                                                     ELSE tokens_returned
    /\ login_pc' = "idle"
    /\ UNCHANGED <<tokenVars, requestVars, dispatchVars, createVars, sessionVars, taskVars, provisionVars, guardVars, resolveVars, handlerVars, now, admin_users, login_in,
                   logins_started, session_calls, session_requests>>

\* AuthService.create_session for the token a login just returned: the
\* AdminSession's dict() goes to NATSService.request.
CreateSession ==
    /\ login_pc = "idle"
    /\ login_result # NoData
    /\ session_calls < MaxLogins
    /\ session_calls' = session_calls + 1
    /\ \E rq \in NATSService_request("admin.create_session", ModelDictSerializable,
                                     RemoteReplies({AnyDoc})) :
          session_requests' = session_requests \o rq.log
    /\ UNCHANGED <<tokenVars, requestVars, dispatchVars, createVars, sessionVars, taskVars, provisionVars, guardVars, resolveVars, handlerVars, now, admin_users, login_pc,
                   login_in, login_response, login_result, login_pubs, login_exit,
                   logins_started, tokens_returned>>

LoginNext == Tick \/ LoginStart \/ LoginFinish \/ CreateSession

SpecLogin == LoginInit /\ [][LoginNext]_vars

\* authenticate_admin has returned from an attempt.
LoginReturned == login_pc = "idle" /\ login_in # NoData
\* The lookup found an identity for the email.
LoginFound == LoginReturned /\ login_response.success /\ Truthy(login_response.data)
LoginNotFound == LoginReturned /\ login_response.success /\ ~Truthy(login_response.data)
LoginLocked ==
    /\ login_response.data.locked_until # NoData
    /\ login_response.data.locked_until.iso > now
\* Found, active and not locked: the attempt reaches password verification.
LoginVerifies == LoginFound /\ login_response.data.is_active /\ ~LoginLocked
\* The supplied password is the one the identity's digest was computed from.
LoginPasswordMatches ==
    /\ ~bcrypt_checkpw_raises(login_response.data.password_hash)
    /\ AuthService_verify_password(login_in.password, login_response.data.password_hash)

PubCalls(subject, field) ==
    SelectSeq(login_pubs, LAMBDA c : c.subject = subject /\ field \in DOMAIN c.payload)
IncrementCalls == PubCalls("admin.update_login_attempts", "increment")
ResetCalls     == PubCalls("admin.update_login_attempts", "reset")
LastLoginCalls == PubCalls("admin.update_last_login", "last_login")

C8_WrongPasswordIncrementsOnce ==
    LoginVerifies /\ ~LoginPasswordMatches
        => /\ Len(IncrementCalls) = 1
           /\ Len(ResetCalls) = 0
           /\ Len(LastLoginCalls) = 0
           /\ login_result = NoData

(* C9: a login on a found, active, unlocked identity with the matching       *)
(* password makes one reset publish and then one last-login publish, no      *)
(* increment publish, and returns a token whose claims are the identity's    *)
(* id, email, role, permissions and super-admin flag.                        *)
C9_MatchingPasswordReturnsToken ==
    LoginVerifies /\ LoginPasswordMatches
        => /\ Len(login_pubs) = 2
           /\ ResetCalls = <<login_pubs[1]>>
           /\ LastLoginCalls = <<login_pubs[2]>>
           /\ Len(IncrementCalls) = 0
           /\ login_result # NoData
           /\ login_result.token.payload.admin_id = login_response.data.id
           /\ login_result.token.payload.email = login_response.data.email
           /\ login_result.token.payload.role = login_response.data.role
           /\ login_result.token.payload.permissions =
                 AdminUser_set_permissions_by_role(login_response.data.permissions,
                                                   login_response.data.role)
           /\ login_result.token.payload.is_super_admin = login_response.data.is_super_admin

(* C10: once a login has returned, the number of admin.create_session        *)
(* requests equals the number of logins that returned a token.               *)
C10_OneSessionPerLogin ==
    login_pc = "idle" => Len(session_requests) = tokens_returned

\* The awaited request of authenticate_admin always returns (reply, TIMEOUT
\* or REQUEST_FAILED), so a started attempt is resumed.
SpecLoginFair == SpecLogin /\ WF_vars(LoginFinish)

LoginExits == {"lookup_failed", "not_found", "inactive", "locked",
               "wrong_password", "exception", "success"}

(* C11: every login attempt ends, and ends in exactly one terminal outcome:  *)
(* a token, or the failure value; no exception leaves authenticate_admin     *)
(* whatever the lookup returned (reply, timeout, transport failure), however *)
(* malformed the identity record is and whichever publish fails.             *)
C11_LoginAlwaysTerminal ==
    /\ [](LoginReturned =>
            /\ login_exit \in LoginExits
            /\ login_result # Raised
            /\ (login_result = NoData) # ("token" \in DOMAIN login_result)
            /\ (login_exit = "success") <=> (login_result # NoData))
    /\ (login_pc = "lookup" ~> login_pc = "idle")

\* An attempt whose last-login publish failed has returned the failure value.
C11_Witness ==
    /\ LoginReturned
    /\ login_exit = "exception"
    /\ Len(login_pubs) = 2 /\ ~login_pubs[2].ok
    /\ login_result = NoData

\* The step in which authenticate_admin returns from an attempt with the
\* identity's own password, on a found, active, well-formed document, after
\* at least one earlier attempt and no earlier success.
CorrectAfterFailures ==
    /\ login_pc = "lookup" /\ login_pc' = "idle"
    /\ login_response'.success /\ Truthy(login_response'.data)
    /\ login_response'.data.is_active /\ login_response'.data.valid
    /\ ~bcrypt_checkpw_raises(login_response'.data.password_hash)
    /\ AuthService_verify_password(login_in.password, login_response'.data.password_hash)
    /\ logins_started >= 2 /\ tokens_returned = 0

(* C31: after failed logins for an identity, an attempt with the correct     *)
(* password is rejected exactly when the stored locked_until is in the       *)
(* future at that moment and returns a token otherwise; no step of the core  *)
(* changes the stored document.                                              *)
C31_LockAloneDecides ==
    [][ /\ admin_users' = admin_users
        /\ CorrectAfterFailures =>
              ((login_result' = NoData) <=>
                  (/\ login_response'.data.locked_until # NoData
                   /\ login_response'.data.locked_until.iso > now)) ]_vars

(* C32: a login with the matching password on a found, active, unlocked,     *)
(* well-formed identity returns a token whether or not the reset publish and *)
(* the last-login publish are delivered.                                     *)
C32_PublishFailureKeepsLogin ==
    (LoginVerifies /\ LoginPasswordMatches /\ login_response.data.valid
        /\ login_exit # "locked")
        => login_result # NoData

\* The attempt ended before password verification: the lookup timed out or
\* failed, found nothing, or found an inactive or locked identity.
LoginEndedEarly ==
    /\ LoginReturned
    /\ \/ ~login_response.success
       \/ ~Truthy(login_response.data)
       \/ ~login_response.data.is_active
       \/ login_exit = "locked"

(* C33: a login attempt that ends because the lookup timed out or failed,    *)
(* the identity was not found, is inactive or is locked has published        *)
(* nothing (no increment, no reset, no last-login), has not reached password *)
(* verification and has issued no token.                                     *)
C33_EarlyFailureHasNoEffects ==
    /\ LoginEndedEarly =>
          /\ login_pubs = <<>>
          /\ login_result = NoData
          /\ login_exit \in {"lookup_failed", "not_found", "inactive", "locked"}
    /\ (LoginFound /\ login_response.data.is_active /\ login_pubs # <<>>)
          => \/ login_response.data.locked_until = NoData
             \/ login_response.data.locked_until.iso <= now

\* The lookup timed out and the attempt returned None.
C33_Witness ==
    /\ LoginReturned /\ login_response = TimeoutEnvelope
    /\ login_exit = "lookup_failed"
    /\ login_pubs = <<>> /\ login_result = NoData

(* C24: the identity view a successful login returns contains neither        *)
(* password_hash nor mfa_secret, for every stored identity document.         *)
C24_LoginViewHasNoSecrets ==
    (LoginReturned /\ login_result # NoData) =>
        /\ "password_hash" \notin DOMAIN login_result.admin
        /\ "mfa_secret" \notin DOMAIN login_result.admin

\* A login succeeded on a document that holds a password hash and an MFA
\* secret.
C24_Witness ==
    /\ LoginReturned /\ login_result # NoData
    /\ login_response.data.password_hash # EmptyHash
    /\ login_response.data.mfa_secret = MfaSecret
    /\ login_result.admin.id = login_response.data.id

(***************************************************************************)
(* Tokens: generate_token followed by verify_token.                        *)
(***************************************************************************)
\* What can happen to a token between issue and verification.
\*   "payload"   a claim is changed (the super-admin flag is flipped)
\*   "forged"    the signature is replaced by one made with another key
\*   "slack"     only the excess bits / non-alphabet characters of the
\*               signature text are changed
Alterations == {"none", "payload", "forged", "slack"}

Alter(token, how) ==
    CASE how = "none"    -> token
      [] how = "payload" ->
           [token EXCEPT !.payload.is_super_admin = ~token.payload.is_super_admin]
      [] how = "forged"  ->
           [token EXCEPT !.signature = base64url_encode(HS256(token.payload, "another-key"))]
      [] how = "slack"   ->
           [token EXCEPT !.signature.slack = 1]

\* Verification times relative to issue: at issue, just after, just before
\* expiry, at expiry, just after expiry.
VerifyOffsets == {0, 1, JWT_EXPIRATION_DELTA - 1, JWT_EXPIRATION_DELTA,
                  JWT_EXPIRATION_DELTA + 1}

TokenInit ==
    /\ guard_in = Pending /\ guard_out = Pending
    /\ resolve_in = Pending /\ resolve_out = Pending
    /\ msg = NoMsg /\ reply = NoReply /\ sent = <<>>
    /\ now = 0 /\ admin_users = NoData /\ login_pc = "idle"
    /\ login_in = NoData /\ login_response = NoReply /\ login_result = NoData
    /\ login_pubs = <<>> /\ login_exit = "none"
    /\ logins_started = 0 /\ tokens_returned = 0
    /\ session_calls = 0 /\ session_requests = <<>>
    /\ \E d \in AdminDocs, iat \in 0..MaxTime, off \in VerifyOffsets, how \in Alterations :
          /\ d.valid
          /\ token_in = [issued |-> AuthService_generate_token(AdminUser(d), iat),
                         altered |-> how,
                         token |-> Alter(AuthService_generate_token(AdminUser(d), iat), how),
                         at |-> iat + off]
    /\ token_out = Pending
    /\ request_pc = "idle" /\ request_in = Pending /\ request_out = Pending /\ request_event = "none" /\ request_waited = 0
    /\ inbox = <<>> /\ handled = <<>> /\ loop_alive = TRUE /\ received = 0
    /\ creators = <<>> /\ store = <<>>
    /\ session_issued = NoData /\ session_store = <<>> /\ session_creates = 0 /\ session_last = Pending
    /\ task_queue = <<>> /\ task_running = {} /\ task_done = {} /\ task_accepted = 0 /\ task_login = NoData
    /\ startup = NoData /\ org_doc = NoData

VerifyToken ==
    /\ token_out = Pending
    /\ \E r \in AuthService_verify_token(token_in.token, token_in.at) : token_out' = r
    /\ UNCHANGED <<token_in, requestVars, dispatchVars, createVars, sessionVars, taskVars, provisionVars, guardVars, resolveVars, handlerVars, loginVars>>

SpecToken == TokenInit /\ [][VerifyToken]_vars

TokenDone    == token_in # Pending /\ token_out # Pending
\* The token's text differs from the issued one.
TokenAltered == token_in.token # token_in.issued
\* The signature of the presented token does not validate.
TokenBadSignature ==
    base64url_decode(token_in.token.signature) # HS256(token_in.token.payload, JWT_SECRET)
\* The presented token is correctly signed and its expiry has passed.
TokenExpired == ~TokenBadSignature /\ token_in.token.payload.exp < token_in.at

C13_TokenRoundTrip ==
    TokenDone =>
        /\ ~TokenAltered /\ token_in.at < token_in.issued.payload.iat + JWT_EXPIRATION_DELTA
              => token_out = token_in.issued.payload
        /\ ~TokenAltered /\ token_in.at > token_in.issued.payload.iat + JWT_EXPIRATION_DELTA
              => token_out = NoData
        /\ TokenAltered => token_out = NoData

(***************************************************************************)
(* NATSService.request as a call in progress.                              *)
(***************************************************************************)
RequestTimeout == 5     \* request(..., timeout: float = 5.0), in seconds
MaxDocId       == 1     \* document ids a reply can carry: 0..MaxDocId

RequestSubjects == {"db.find_one", "db.create", "db.update", "admin.get_by_email"}

\* response.data that json.loads cannot decode.
Undecodable == [undecodable |-> TRUE]

\* What the remote side can answer.
RequestReplies ==
    {Ok([id |-> n]) : n \in 0..MaxDocId} \cup {Ok(NoData), Err("DB_ERROR"), Undecodable}

\* The ways a call of request ends before it waits:
\*   self.nc is None (AttributeError), json.dumps raises (TypeError),
\* and while it waits: the transport fails, the timeout elapses, a reply arrives.
RequestFailures == {"not_connected", "not_serializable", "transport_error"}

\* request without the `except NatsTimeoutError` clause.
NATSService_request_returns_NoTimeoutClause(event, response) ==
    IF event = "reply" /\ response # Undecodable THEN response
    ELSE RequestFailedEnvelope

\* request with json.loads outside the try block.
NATSService_request_returns_DecodeOutside(event, response) ==
    IF event = "reply" THEN (IF response = Undecodable THEN Raised ELSE response)
    ELSE IF event = "timeout" THEN TimeoutEnvelope
    ELSE RequestFailedEnvelope

\* NATSService.request: the value the call returns for the event that ends it.
NATSService_request_returns(event, response) ==
    IF event = "reply" /\ response # Undecodable THEN response
    ELSE IF event = "timeout" THEN TimeoutEnvelope
    ELSE RequestFailedEnvelope

RequestInit ==
    /\ guard_in = Pending /\ guard_out = Pending
    /\ resolve_in = Pending /\ resolve_out = Pending
    /\ msg = NoMsg /\ reply = NoReply /\ sent = <<>>
    /\ now = 0 /\ admin_users = NoData /\ login_pc = "idle"
    /\ login_in = NoData /\ login_response = NoReply /\ login_result = NoData
    /\ login_pubs = <<>> /\ login_exit = "none"
    /\ logins_started = 0 /\ tokens_returned = 0
    /\ session_calls = 0 /\ session_requests = <<>>
    /\ token_in = Pending /\ token_out = Pending
    /\ request_pc = "idle"
    /\ request_in \in [subject : RequestSubjects, serializable : BOOLEAN, connected : BOOLEAN]
    /\ request_out = Pending /\ request_event = "none" /\ request_waited = 0
    /\ inbox = <<>> /\ handled = <<>> /\ loop_alive = TRUE /\ received = 0
    /\ creators = <<>> /\ store = <<>>
    /\ session_issued = NoData /\ session_store = <<>> /\ session_creates = 0 /\ session_last = Pending
    /\ task_queue = <<>> /\ task_running = {} /\ task_done = {} /\ task_accepted = 0 /\ task_login = NoData
    /\ startup = NoData /\ org_doc = NoData

RequestEnds(event, response) ==
    /\ request_pc' = "returned"
    /\ request_event' = IF event = "reply" /\ response = Undecodable
                        THEN "undecodable_reply" ELSE event
    /\ request_out' = NATSService_request_returns(event, response)
    /\ UNCHANGED <<request_in, request_waited,
                   dispatchVars, createVars, sessionVars, taskVars, provisionVars, guardVars, resolveVars, handlerVars, loginVars, tokenVars>>

\* json.dumps(data) and self.nc.request(...): fails at once, or starts waiting.
RequestCall ==
    /\ request_pc = "idle"
    /\ IF ~request_in.serializable THEN RequestEnds("not_serializable", Undecodable)
       ELSE IF ~request_in.connected THEN RequestEnds("not_connected", Undecodable)
       ELSE /\ request_pc' = "waiting"
            /\ UNCHANGED <<request_in, request_out, request_event, request_waited,
                           dispatchVars, createVars, sessionVars, taskVars, provisionVars, guardVars, resolveVars, handlerVars, loginVars, tokenVars>>

\* A second passes while the call waits.
RequestWait ==
    /\ request_pc = "waiting"
    /\ request_waited < RequestTimeout
    /\ request_waited' = request_waited + 1
    /\ UNCHANGED <<request_pc, request_in, request_out, request_event,
                   dispatchVars, createVars, sessionVars, taskVars, provisionVars, guardVars, resolveVars, handlerVars, loginVars, tokenVars>>

\* The reply arrives before the timeout.
RequestReply ==
    /\ request_pc = "waiting"
    /\ request_waited < RequestTimeout
    /\ \E response \in RequestReplies : RequestEnds("reply", response)

\* The connection fails while the call waits.
RequestTransportError ==
    /\ request_pc = "waiting"
    /\ RequestEnds("transport_error", Undecodable)

\* The timeout elapses: self.nc.request raises NatsTimeoutError.
RequestTimesOut ==
    /\ request_pc = "waiting"
    /\ request_waited = RequestTimeout
    /\ RequestEnds("timeout", Undecodable)

RequestNext ==
    \/ RequestCall \/ RequestWait \/ RequestReply
    \/ RequestTransportError \/ RequestTimesOut

SpecRequest == RequestInit /\ [][RequestNext]_vars
\* Time passes and the timer of the awaited request fires.
SpecRequestFair ==
    SpecRequest /\ WF_vars(RequestCall) /\ WF_vars(RequestWait) /\ WF_vars(RequestTimesOut)

RequestReturned == request_pc = "returned"

(* C14: a call of request never waits longer than its timeout and always     *)
(* returns; when the timeout elapses with no reply it returns the TIMEOUT    *)
(* envelope, it does not raise.                                              *)
C14_RequestTimesOut ==
    /\ [](request_waited <= RequestTimeout)
    /\ [](RequestReturned /\ request_event = "timeout" => request_out = TimeoutEnvelope)
    /\ (request_pc = "waiting" ~> RequestReturned)

\* A call has waited the whole timeout and returned the TIMEOUT envelope.
C14_Witness ==
    /\ RequestReturned /\ request_event = "timeout"
    /\ request_waited = RequestTimeout
    /\ request_out = TimeoutEnvelope

(* C15: request never raises: when the client is not connected, the payload  *)
(* is not serializable, the transport fails or the reply cannot be decoded,  *)
(* the call returns the REQUEST_FAILED envelope.                             *)
C15_RequestNeverRaises ==
    RequestReturned =>
        /\ request_out # Raised
        /\ request_event \in RequestFailures \cup {"undecodable_reply"}
              => request_out = RequestFailedEnvelope

\* A call whose reply could not be decoded has returned REQUEST_FAILED.
C15_Witness ==
    /\ RequestReturned /\ request_event = "undecodable_reply"
    /\ request_out = RequestFailedEnvelope

(***************************************************************************)
(* NATSService.subscribe: the message_handler wrapper and the dispatch of   *)
(* inbound messages to the subscribed handlers.                            *)
(***************************************************************************)
MaxInbox == 3       \* inbound messages per behaviour

\* One request subject and the two event subjects of UserController.
DispatchSubjects == {"admin.get_by_email", "user.create_owner", "user.suspend_all"}

\* msg.data of an inbound message:
\*   "malformed"   bytes that json.loads rejects
\*   "not_object"  JSON that is not an object (the handler's data.get raises)
\*   "object"      a JSON object
Payloads == {"malformed", "not_object", "object"}

InboundMessages == [subject : DispatchSubjects, payload : Payloads]

\* UserController.handle_create_owner: validates a User, stores it and
\* publishes the welcome mail; every fault is logged; it never responds.
handle_create_owner(payload) ==
    IF payload = "not_object" THEN {Outcome(NoReply, <<>>, NoOrg)}
    ELSE UNION {
           IF rq.env.success
           THEN { Outcome(NoReply, rq.log \o pb.log, NoOrg) :
                    pb \in NATSService_publish("email.send_owner_welcome") }
           ELSE {Outcome(NoReply, rq.log, NoOrg)}
         : rq \in NATSService_request("db.create", ModelDictSerializable,
                                      RemoteReplies({AnyDoc})) }

\* UserController.handle_suspend_all: updates the users of the organization
\* and publishes the session invalidation; every fault is logged; it never
\* responds.
handle_suspend_all(payload) ==
    IF payload = "not_object" THEN {Outcome(NoReply, <<>>, NoOrg)}
    ELSE UNION {
           { Outcome(NoReply, rq.log \o pb.log, NoOrg) :
               pb \in NATSService_publish("auth.invalidate_org_sessions") }
         : rq \in NATSService_request("db.update_many", TRUE, RemoteReplies({AnyDoc})) }

\* The handler subscribed to a subject, applied to a decoded payload.
\* handle_get_admin_by_email answers a payload that is not an object from its
\* except clause.
SubscribedHandler(subject, payload) ==
    CASE subject = "admin.get_by_email" ->
           IF payload = "not_object" THEN {Outcome(InternalError, <<>>, NoOrg)}
           ELSE handle_get_admin_by_email(SUPER_ADMIN_EMAIL)
      [] subject = "user.create_owner" -> handle_create_owner(payload)
      [] subject = "user.suspend_all"  -> handle_suspend_all(payload)

DispatchResult(m, ran, o, raised) ==
    [msg |-> m, ran |-> ran, reply |-> o.reply, sent |-> o.sent, raised |-> raised]

\* The wrapper without its try/except: a payload that cannot be decoded
\* raises out of the callback.
message_handler_Unguarded(m) ==
    IF m.payload = "malformed"
    THEN {DispatchResult(m, FALSE, Outcome(NoReply, <<>>, NoOrg), TRUE)}
    ELSE {DispatchResult(m, TRUE, o, FALSE) : o \in SubscribedHandler(m.subject, m.payload)}

\* NATSService.subscribe.message_handler: json.loads, then the handler; any
\* exception is logged and swallowed.
message_handler(m) ==
    IF m.payload = "malformed"
    THEN {DispatchResult(m, FALSE, Outcome(NoReply, <<>>, NoOrg), FALSE)}
    ELSE {DispatchResult(m, TRUE, o, FALSE) : o \in SubscribedHandler(m.subject, m.payload)}

DispatchInit ==
    /\ guard_in = Pending /\ guard_out = Pending
    /\ resolve_in = Pending /\ resolve_out = Pending
    /\ msg = NoMsg /\ reply = NoReply /\ sent = <<>>
    /\ now = 0 /\ admin_users = NoData /\ login_pc = "idle"
    /\ login_in = NoData /\ login_response = NoReply /\ login_result = NoData
    /\ login_pubs = <<>> /\ login_exit = "none"
    /\ logins_started = 0 /\ tokens_returned = 0
    /\ session_calls = 0 /\ session_requests = <<>>
    /\ token_in = Pending /\ token_out = Pending
    /\ request_pc = "idle" /\ request_in = Pending /\ request_out = Pending /\ request_event = "none" /\ request_waited = 0
    /\ inbox = <<>> /\ handled = <<>> /\ loop_alive = TRUE /\ received = 0
    /\ creators = <<>> /\ store = <<>>
    /\ session_issued = NoData /\ session_store = <<>> /\ session_creates = 0 /\ session_last = Pending
    /\ task_queue = <<>> /\ task_running = {} /\ task_done = {} /\ task_accepted = 0 /\ task_login = NoData
    /\ startup = NoData /\ org_doc = NoData

\* The client receives a message on a subscribed subject.
Receive ==
    /\ received < MaxInbox
    /\ \E m \in InboundMessages : inbox' = Append(inbox, m)
    /\ received' = received + 1
    /\ UNCHANGED <<handled, loop_alive,
                   createVars, sessionVars, taskVars, provisionVars, guardVars, resolveVars, handlerVars, loginVars, tokenVars, requestVars>>

\* The client calls the subscription's callback for the oldest message. An
\* exception leaving the callback ends the dispatch.
DispatchMessage ==
    /\ loop_alive
    /\ inbox # <<>>
    /\ \E r \in message_handler(Head(inbox)) :
          /\ handled' = Append(handled, r)
          /\ loop_alive' = ~r.raised
    /\ inbox' = Tail(inbox)
    /\ UNCHANGED <<received,
                   createVars, sessionVars, taskVars, provisionVars, guardVars, resolveVars, handlerVars, loginVars, tokenVars, requestVars>>

DispatchNext == Receive \/ DispatchMessage

SpecDispatch == DispatchInit /\ [][DispatchNext]_vars
\* The client keeps calling the callback while messages are pending.
SpecDispatchFair == SpecDispatch /\ WF_vars(DispatchMessage)

\* The message could not be decoded, or its handler ran into its except clause.
Faulted(h) == ~h.ran \/ h.msg.payload = "not_object"

(* C16: a fault while handling one message (payload that cannot be decoded,  *)
(* exception in the handler) never ends the dispatch: the dispatch stays     *)
(* alive and every message received later, on the same or another subject,   *)
(* is still dispatched.                                                      *)
C16_FaultIsolation ==
    /\ []loop_alive
    /\ [](\A i \in 1..Len(handled) : ~handled[i].raised)
    /\ (inbox # <<>> ~> inbox = <<>>)

\* After a message that could not be decoded, a later message on the same
\* subject and one on another subject reached their handlers.
C16_Witness ==
    /\ Len(handled) = 3
    /\ handled[1].msg.payload = "malformed"
    /\ handled[2].msg.subject = handled[1].msg.subject /\ handled[2].ran
    /\ handled[3].msg.subject # handled[1].msg.subject /\ handled[3].ran

\* The subjects whose sender awaits a reply.
ReplySubjects == {"admin.get_by_email"}

(* C17: every dispatched inbound request message has been answered with a    *)
(* reply envelope; one whose handling faulted, in the wrapper's decoding or  *)
(* in the handler, has been answered INTERNAL_ERROR.                         *)
C17_AlwaysReplied ==
    \A i \in 1..Len(handled) :
        handled[i].msg.subject \in ReplySubjects =>
            /\ handled[i].reply # NoReply
            /\ Faulted(handled[i]) => handled[i].reply = InternalError

(***************************************************************************)
(* The remaining handlers: AdminController and organization create / list. *)
(***************************************************************************)
\* AdminController._create_audit_log: publishes audit_log.dict(); every
\* exception is logged and swallowed.
AdminController_create_audit_log ==
    IF ~ModelDictSerializable THEN {<<>>}
    ELSE {pb.log : pb \in NATSService_publish("audit.create")}

\* handle_create_admin with the existence check made after the document is
\* stored.
handle_create_admin_CheckAfter(data) ==
    IF ~data.requester.is_super_admin
    THEN {Outcome(Forbidden, <<>>, NoOrg)}
    ELSE IF ~data.valid
    THEN {Outcome(InternalError, <<>>, NoOrg)}
    ELSE UNION {
      UNION {
        IF Truthy(existing.env.data)
        THEN {Outcome(Err("ALREADY_EXISTS"), response.log \o existing.log, NoOrg)}
        ELSE {Outcome(response.env, response.log \o existing.log, NoOrg)}
      : existing \in NATSService_request("db.find_one", TRUE,
                                         RemoteReplies({NoData, AnyDoc})) }
    : response \in NATSService_request("db.create", TRUE, RemoteReplies({AnyDoc})) }

\* AdminController.handle_create_admin
handle_create_admin(data) ==
    IF ~data.requester.is_super_admin
    THEN {Outcome(Forbidden, <<>>, NoOrg)}
    ELSE IF ~data.valid
    THEN {Outcome(InternalError, <<>>, NoOrg)}          \* AdminUser(...) raises
    ELSE UNION {
      IF Truthy(existing.env.data)
      THEN {Outcome(Err("ALREADY_EXISTS"), existing.log, NoOrg)}
      ELSE UNION {
        IF response.env.success
        THEN IF response.env.data = NoData
             THEN {Outcome(InternalError, existing.log \o response.log, NoOrg)}
             ELSE {Outcome(Ok(response.env.data), existing.log \o response.log \o al, NoOrg) :
                     al \in AdminController_create_audit_log}
        ELSE {Outcome(response.env, existing.log \o response.log, NoOrg)}
      : response \in NATSService_request("db.create", ModelDictSerializable,
                                         RemoteReplies({AnyDoc, NoData})) }
    : existing \in NATSService_request("db.find_one", TRUE,
                                       RemoteReplies({NoData, AnyDoc})) }

\* handle_update_admin with the update sent before the permission check.
handle_update_admin_CheckAfter(data) ==
    UNION {
      IF ~data.requester.is_super_admin /\ data.requester.admin_id # data.admin_id
      THEN {Outcome(Forbidden, response.log, NoOrg)}
      ELSE {Outcome(response.env, response.log, NoOrg)}
    : response \in NATSService_request("db.update", TRUE, RemoteReplies({AnyDoc})) }

\* AdminController.handle_update_admin
handle_update_admin(data) ==
    IF ~data.requester.is_super_admin /\ data.requester.admin_id # data.admin_id
    THEN {Outcome(Forbidden, <<>>, NoOrg)}
    ELSE UNION {
      IF ~current.env.success
      THEN {Outcome(current.env, current.log, NoOrg)}
      ELSE UNION {
        LET updates == Stamped(hashed, data.requester.admin_id)
            log     == current.log \o
                       WithPayload(response.log,
                           [collection |-> "admin_users", id |-> data.admin_id,
                            updates |-> updates])
        IN
        IF response.env.success
        THEN {Outcome(response.env, log \o al, NoOrg) :
                al \in AdminController_create_audit_log}
        ELSE {Outcome(response.env, log, NoOrg)}
      : response \in NATSService_request("db.update", TRUE, RemoteReplies({AnyDoc})),
        hashed \in HashPasswordUpdate(data.updates) }
    : current \in NATSService_request("db.find_by_id", TRUE,
                                      RemoteReplies({NoData, AnyDoc})) }

\* handle_delete_admin that removes the document from the store.
handle_delete_admin_Hard(data) ==
    IF ~data.requester.is_super_admin
    THEN {Outcome(Forbidden, <<>>, NoOrg)}
    ELSE IF data.requester.admin_id = data.admin_id
    THEN {Outcome(Err("INVALID_REQUEST"), <<>>, NoOrg)}
    ELSE { Outcome(response.env,
                   WithPayload(response.log,
                       [collection |-> "admin_users", id |-> data.admin_id]), NoOrg) :
           response \in NATSService_request("db.delete", TRUE, RemoteReplies({AnyDoc})) }

\* handle_delete_admin without the self-deletion check.
handle_delete_admin_Self(data) ==
    IF ~data.requester.is_super_admin
    THEN {Outcome(Forbidden, <<>>, NoOrg)}
    ELSE UNION {
      LET log == WithPayload(response.log,
                     [collection |-> "admin_users", id |-> data.admin_id,
                      updates |-> [is_active |-> FALSE,
                                   deleted_at |-> [iso |-> "utcnow"],
                                   deleted_by |-> data.requester.admin_id]])
      IN
      IF response.env.success
      THEN UNION {
             IF pb.raised THEN {Outcome(InternalError, log \o pb.log, NoOrg)}
             ELSE {Outcome(response.env, log \o pb.log \o al, NoOrg) :
                     al \in AdminController_create_audit_log}
           : pb \in NATSService_publish("admin.invalidate_all_sessions") }
      ELSE {Outcome(response.env, log, NoOrg)}
    : response \in NATSService_request("db.update", TRUE, RemoteReplies({AnyDoc})) }

\* handle_delete_admin that publishes the invalidation whatever the store
\* answered.
handle_delete_admin_Eager(data) ==
    IF ~data.requester.is_super_admin
    THEN {Outcome(Forbidden, <<>>, NoOrg)}
    ELSE IF data.requester.admin_id = data.admin_id
    THEN {Outcome(Err("INVALID_REQUEST"), <<>>, NoOrg)}
    ELSE UNION {
      LET log == WithPayload(response.log,
                     [collection |-> "admin_users", id |-> data.admin_id,
                      updates |-> [is_active |-> FALSE,
                                   deleted_at |-> [iso |-> "utcnow"],
                                   deleted_by |-> data.requester.admin_id]])
      IN
      UNION {
             IF pb.raised THEN {Outcome(InternalError, log \o pb.log, NoOrg)}
             ELSE {Outcome(response.env, log \o pb.log \o al, NoOrg) :
                     al \in AdminController_create_audit_log}
           : pb \in NATSService_publish("admin.invalidate_all_sessions") }
    : response \in NATSService_request("db.update", TRUE, RemoteReplies({AnyDoc})) }

\* AdminController.handle_delete_admin
handle_delete_admin(data) ==
    IF ~data.requester.is_super_admin
    THEN {Outcome(Forbidden, <<>>, NoOrg)}
    ELSE IF data.requester.admin_id = data.admin_id
    THEN {Outcome(Err("INVALID_REQUEST"), <<>>, NoOrg)}
    ELSE UNION {
      LET log == WithPayload(response.log,
                     [collection |-> "admin_users", id |-> data.admin_id,
                      updates |-> [is_active |-> FALSE,
                                   deleted_at |-> [iso |-> "utcnow"],
                                   deleted_by |-> data.requester.admin_id]])
      IN
      IF response.env.success
      THEN UNION {
             IF pb.raised THEN {Outcome(InternalError, log \o pb.log, NoOrg)}
             ELSE {Outcome(response.env, log \o pb.log \o al, NoOrg) :
                     al \in AdminController_create_audit_log}
           : pb \in NATSService_publish("admin.invalidate_all_sessions") }
      ELSE {Outcome(response.env, log, NoOrg)}
    : response \in NATSService_request("db.update", TRUE, RemoteReplies({AnyDoc})) }

\* AdminController.handle_list_admins
handle_list_admins(data) ==
    IF ~data.requester.is_super_admin
    THEN {Outcome(Forbidden, <<>>, NoOrg)}
    ELSE {Outcome(rq.env, rq.log, NoOrg) :
             rq \in NATSService_request("db.find", TRUE, RemoteReplies({AnyDoc}))}

\* OrganizationController.handle_create_organization
handle_create_organization(data) ==
    IF ~OrganizationController_has_permission(data.requester, "org:create")
    THEN {Outcome(Forbidden, <<>>, NoOrg)}
    ELSE IF ~data.valid
    THEN {Outcome(InternalError, <<>>, NoOrg)}          \* Organization(...) raises
    ELSE UNION {
      IF Truthy(existing.env.data)
      THEN {Outcome(Err("ALREADY_EXISTS"), existing.log, NoOrg)}
      ELSE UNION {
        IF response.env.success
        THEN IF response.env.data = NoData
             THEN {Outcome(InternalError, existing.log \o response.log, NoOrg)}
             ELSE PublishThenRespond(existing.log \o response.log,
                      <<"user.create_owner", "organization.created">>,
                      Ok(response.env.data), NoOrg)
        ELSE {Outcome(response.env, existing.log \o response.log, NoOrg)}
      : response \in NATSService_request("db.create", ModelDictSerializable,
                                         RemoteReplies({AnyDoc, NoData})) }
    : existing \in NATSService_request("db.find_one", TRUE,
                                       RemoteReplies({NoData, AnyDoc})) }

\* A list filter that never names ids.
filter_params_Open(requester) == [k \in {} |-> requester.org_ids]

\* handle_list_organizations, filter_params: {'id': {'$in': org_ids}} for a
\* requester that is not a super admin and has a non-empty org_ids, no id key
\* otherwise.
filter_params(requester) ==
    IF ~requester.is_super_admin /\ requester.org_ids # {}
    THEN [k \in {"id"} |-> requester.org_ids]
    ELSE [k \in {} |-> requester.org_ids]

\* OrganizationController.handle_list_organizations
handle_list_organizations(data) ==
    IF ~OrganizationController_has_permission(data.requester, "org:read")
    THEN {Outcome(Forbidden, <<>>, NoOrg)}
    ELSE {Outcome(rq.env,
                  WithPayload(rq.log, [collection |-> "organizations",
                                       filter |-> filter_params(data.requester)]),
                  NoOrg) :
             rq \in NATSService_request("db.find", TRUE, RemoteReplies({AnyDoc}))}

\* Payloads of the admin.* and organization.create / list messages.
AdminMessages ==
    [requester : RequesterOver({{}, {"org:create"}, {"org:read"}}),
     admin_id : AdminIds \cup {"admin-2", NoId}, valid : BOOLEAN]

\* Payloads of admin.update: an admin and the updates asked for.
AdminUpdateMessages ==
    [requester : RequesterOver({{}, {"org:create"}, {"org:read"}}),
     admin_id : AdminIds \cup {"admin-2", NoId}, valid : {TRUE},
     updates : UpdatesOver(AdminUpdateFields)]

AdminCreate ==
    /\ msg = NoMsg
    /\ \E data \in AdminMessages : \E o \in handle_create_admin(data) :
           Dispatch("admin.create", data, o)
AdminUpdate ==
    /\ msg = NoMsg
    /\ \E data \in AdminUpdateMessages : \E o \in handle_update_admin(data) :
           Dispatch("admin.update", data, o)
AdminDelete ==
    /\ msg = NoMsg
    /\ \E data \in Plain(AdminMessages) : \E o \in handle_delete_admin(data) :
           Dispatch("admin.delete", data, o)
AdminList ==
    /\ msg = NoMsg
    /\ \E data \in Plain(AdminMessages) : \E o \in handle_list_admins(data) :
           Dispatch("admin.list", data, o)
OrganizationCreate ==
    /\ msg = NoMsg
    /\ \E data \in AdminMessages : \E o \in handle_create_organization(data) :
           Dispatch("organization.create", data, o)
OrganizationList ==
    /\ msg = NoMsg
    /\ \E data \in Plain(AdminMessages) : \E o \in handle_list_organizations(data) :
           Dispatch("organization.list", data, o)

AdminNext ==
    \/ AdminCreate \/ AdminUpdate \/ AdminDelete \/ AdminList
    \/ OrganizationCreate \/ OrganizationList

\* Every request handler of the three controllers.
SpecAllHandlers == HandlerInit /\ [][HandlerNext \/ AdminNext]_vars

\* An entry of the handler's log that changes remote state: a create or
\* update request, or any publish.
Mutating(entry) ==
    \/ entry.op = "publish"
    \/ entry.subject \in {"db.create", "db.update", "db.update_many"}

(* C18: a message answered FORBIDDEN has caused no db.create, db.update or   *)
(* db.update_many request and no publish, in every handler.                  *)
C18_ForbiddenMutatesNothing ==
    Handled /\ reply = Forbidden =>
        \A i \in 1..Len(sent) : ~Mutating(sent[i])

\* admin.update by another, non-super admin was answered FORBIDDEN.
C18_Witness ==
    /\ Handled /\ msg.subject = "admin.update"
    /\ ~msg.data.requester.is_super_admin
    /\ msg.data.requester.admin_id # msg.data.admin_id
    /\ reply = Forbidden /\ sent = <<>>

CreateSubjects == {"admin.create", "organization.create", "user.create", "user.invite"}

(* C19: a create message (admin.create, organization.create, user.create,    *)
(* user.invite) answered ALREADY_EXISTS or LIMIT_EXCEEDED has caused no      *)
(* db.create request and no publish.                                         *)
C19_ConflictMutatesNothing ==
    Handled /\ msg.subject \in CreateSubjects
            /\ reply \in {Err("ALREADY_EXISTS"), Err("LIMIT_EXCEEDED")} =>
        \A i \in 1..Len(sent) :
            sent[i].op # "publish" /\ sent[i].subject # "db.create"

\* admin.create found the email in use and answered ALREADY_EXISTS after its
\* lookup.
C19_Witness ==
    /\ Handled /\ msg.subject = "admin.create"
    /\ reply = Err("ALREADY_EXISTS")
    /\ Len(sent) = 1 /\ sent[1].subject = "db.find_one"

\* The payload a log entry was sent with, or None where the model leaves it
\* out.
Payload(entry) == IF "payload" \in DOMAIN entry THEN entry.payload ELSE NoData
\* The fields the updates of a payload name.
UpdatedFields(payload) ==
    IF payload # NoData /\ "updates" \in DOMAIN payload THEN DOMAIN payload.updates ELSE {}

SecretFields == {"password_hash", "mfa_secret", "password"}

(* C23: no reply envelope and no published event of any handler carries a    *)
(* password_hash, an mfa_secret or a raw password.                           *)
C23_NoSecretLeaves ==
    Handled =>
        /\ \A i \in 1..Len(sent) :
              (sent[i].op = "publish" /\ sent[i].ok) =>
                  UpdatedFields(Payload(sent[i])) \cap SecretFields = {}
        /\ (reply.data # NoData => DOMAIN reply.data \cap SecretFields = {})

\* role, permissions, org scope, super-admin flag, active flag and status.
ProtectedFields ==
    {"role", "permissions", "org_id", "org_ids", "is_super_admin", "is_active", "status"}

\* The handled message is an update of the requester's own record by a
\* requester without management rights.
SelfUpdateWithoutRights ==
    /\ Handled
    /\ \/ /\ msg.subject = "user.update"
          /\ msg.data.requester.user_id = msg.data.user_id
          /\ ~UserController_has_permission(msg.data.requester, "user:manage", msg.org_id)
       \/ /\ msg.subject = "admin.update"
          /\ ~msg.data.requester.is_super_admin
          /\ msg.data.requester.admin_id = msg.data.admin_id

(* C25: when a user updates itself through user.update, or a non-super admin *)
(* updates itself through admin.update, without management rights, the       *)
(* db.update sent names no field among role, permissions, org scope,         *)
(* is_super_admin, is_active and status.                                     *)
C25_SelfUpdateRestricted ==
    SelfUpdateWithoutRights =>
        \A i \in 1..Len(sent) :
            sent[i].subject = "db.update" =>
                UpdatedFields(Payload(sent[i])) \cap ProtectedFields = {}

\* The subjects the handlers request.
RequestedSubjects ==
    {"db.find", "db.find_one", "db.find_by_id", "db.create", "db.update",
     "user.get_stats", "patient.get_stats", "claim.get_stats"}

(* C26: no handler sends a delete request to storage: every nested request   *)
(* is a read, a create or an update, and the only request of admin.delete is *)
(* a db.update that sets is_active to false with deleted_at and deleted_by.  *)
C26_NoPhysicalDelete ==
    Handled =>
        \A i \in 1..Len(sent) :
            sent[i].op = "request" =>
                /\ sent[i].subject \in RequestedSubjects
                /\ msg.subject = "admin.delete" =>
                      /\ sent[i].subject = "db.update"
                      /\ DOMAIN sent[i].payload.updates =
                             {"is_active", "deleted_at", "deleted_by"}
                      /\ sent[i].payload.updates.is_active = FALSE
                      /\ sent[i].payload.id = msg.data.admin_id

\* admin.delete by a super admin on another admin went through.
C26_Witness ==
    /\ Handled /\ msg.subject = "admin.delete" /\ reply.success
    /\ Len(sent) >= 1 /\ sent[1].subject = "db.update"

SpecifiedCodes ==
    {"FORBIDDEN", "ALREADY_EXISTS", "LIMIT_EXCEEDED", "TIMEOUT", "REQUEST_FAILED",
     "INTERNAL_ERROR", "INVALID_CREDENTIALS", "ACCOUNT_INACTIVE", "ACCOUNT_LOCKED",
     "EXPIRED", "INVALID_SIGNATURE"}

RelayedCodes == {e.code : e \in {r \in RemoteReplies({}) : ~r.success}}

SameSend(a, b) ==
    a.op = b.op /\ a.subject = b.subject /\ Payload(a) = Payload(b)

(* C30: no message is sent twice: each request and publish call adds at most *)
(* one send to the handler's log, and no handler sends a nested request      *)
(* again after it came back with TIMEOUT or REQUEST_FAILED.                  *)
C30_NeverResends ==
    Handled =>
        \A i, j \in 1..Len(sent) : i < j => ~SameSend(sent[i], sent[j])

\* user.update whose db.update timed out after the lookup: the handler
\* relayed the TIMEOUT envelope.
C30_Witness ==
    /\ Handled /\ msg.subject = "user.update"
    /\ reply = TimeoutEnvelope
    /\ Len(sent) = 2 /\ sent[2].subject = "db.update"

\* organization.list was handled and its query was sent.
Listed == Handled /\ msg.subject = "organization.list" /\ sent # <<>>

(* C40: organization.list queries the store only within the requester's      *)
(* scope: for a requester that is not a super admin and has a non-empty org  *)
(* scope the one db.find carries an id filter of exactly the ids in scope;   *)
(* only a super admin or a requester with an empty scope sends a query       *)
(* without an id filter.                                                     *)
C40_ListWithinScope ==
    Listed =>
        LET requester == msg.data.requester
            filter    == sent[1].payload.filter
        IN  /\ Len(sent) = 1 /\ sent[1].subject = "db.find"
            /\ (~requester.is_super_admin /\ requester.org_ids # {}) =>
                  "id" \in DOMAIN filter /\ filter["id"] = requester.org_ids
            /\ "id" \notin DOMAIN filter =>
                  requester.is_super_admin \/ requester.org_ids = {}

\* A requester holding org:read with one organization in scope listed the
\* organizations and was answered.
C40_Witness ==
    /\ Listed /\ reply.success
    /\ ~msg.data.requester.is_super_admin
    /\ msg.data.requester.org_ids = {"org-1"}
    /\ sent[1].payload.filter["id"] = {"org-1"}

(***************************************************************************)
(* Concurrent create requests: handle_create_admin,                        *)
(* handle_create_organization and handle_create_user between their awaits, *)
(* against one remote store.                                               *)
(***************************************************************************)
MaxCreators == 2    \* create requests in flight at once

Creators    == 1..MaxCreators
CreateKinds == {"admin.create", "organization.create", "user.create"}
\* The natural key of the document: email, name, (email, org_id).
CreateKeys  == {"key-1", "key-2"}

Collection(kind) ==
    CASE kind = "admin.create"        -> "admin_users"
      [] kind = "organization.create" -> "organizations"
      [] kind = "user.create"         -> "users"

IdleCreator == [pc |-> "idle", kind |-> "none", key |-> "none", resent |-> FALSE,
                lookup |-> NoReply, reply |-> NoReply]

Stored(collection, key) ==
    {i \in 1..Len(store) : store[i] = [collection |-> collection, key |-> key]}

\* db.find_one by natural key, answered from what the store holds when it
\* processes the request.
db_find_one(collection, key) ==
    IF Stored(collection, key) = {} THEN {NoData} ELSE {AnyDoc}

\* db.find_by_id of the organization: the counters the store holds when it
\* processes the request, where the model tracks them; any document or none
\* otherwise.
db_find_by_id_org ==
    IF org_doc = NoData THEN OrgDocs \cup {NoData}
    ELSE {[current_users |-> org_doc.current_users, max_users |-> org_doc.max_users]}

\* publish organization.increment_users after a successful user create:
\* publish raises, or the message is handed to the bus and its consumer adds
\* one to current_users, or the message is lost on the way.
increment_users(kind, response) ==
    IF kind = "user.create" /\ response.env.success /\ org_doc # NoData
    THEN {[raised |-> p.raised,
           org |-> IF p.raised \/ ~delivered THEN org_doc
                   ELSE [org_doc EXCEPT !.current_users = @ + 1]] :
             p \in NATSService_publish("organization.increment_users"),
             delivered \in BOOLEAN}
    ELSE {[raised |-> FALSE, org |-> org_doc]}

\* db.create: when the request reached the store the document is created if
\* the store answers success; a request that timed out on the caller's side
\* may or may not have been carried out.
db_create_effect(rq) ==
    IF rq.log = <<>> THEN {FALSE}
    ELSE IF rq.env.success THEN {TRUE}
    ELSE IF rq.env = TimeoutEnvelope THEN {TRUE, FALSE}
    ELSE {FALSE}

CreateInit ==
    /\ guard_in = Pending /\ guard_out = Pending
    /\ resolve_in = Pending /\ resolve_out = Pending
    /\ msg = NoMsg /\ reply = NoReply /\ sent = <<>>
    /\ now = 0 /\ admin_users = NoData /\ login_pc = "idle"
    /\ login_in = NoData /\ login_response = NoReply /\ login_result = NoData
    /\ login_pubs = <<>> /\ login_exit = "none"
    /\ logins_started = 0 /\ tokens_returned = 0
    /\ session_calls = 0 /\ session_requests = <<>>
    /\ token_in = Pending /\ token_out = Pending
    /\ request_pc = "idle" /\ request_in = Pending /\ request_out = Pending /\ request_event = "none" /\ request_waited = 0
    /\ inbox = <<>> /\ handled = <<>> /\ loop_alive = TRUE /\ received = 0
    /\ creators = [c \in Creators |-> IdleCreator]
    /\ store \in {<<>>} \cup {<<[collection |-> Collection(kind), key |-> key]>> :
                                kind \in CreateKinds, key \in {"key-1"}}
    /\ session_issued = NoData /\ session_store = <<>> /\ session_creates = 0 /\ session_last = Pending
    /\ task_queue = <<>> /\ task_running = {} /\ task_done = {} /\ task_accepted = 0 /\ task_login = NoData
    /\ startup = NoData /\ org_doc = NoData

CreateRest == <<sessionVars, taskVars, startup, guardVars, resolveVars, handlerVars, loginVars, tokenVars, requestVars,
                dispatchVars>>

\* A create message arrives; its handler passes the permission check, builds
\* the model object and awaits db.find_one. resent: another request with the
\* same key is still being handled.
CreateReceive(c) ==
    /\ creators[c].pc = "idle"
    /\ \E kind \in CreateKinds, key \in CreateKeys :
          creators' = [creators EXCEPT ![c] =
              [pc |-> "find_one", kind |-> kind, key |-> key,
               resent |-> \E d \in Creators \ {c} :
                              /\ creators[d].pc \notin {"idle", "done"}
                              /\ creators[d].kind = kind /\ creators[d].key = key,
               lookup |-> NoReply, reply |-> NoReply]]
    /\ UNCHANGED <<store, org_doc, CreateRest>>

\* db.find_one returns: ALREADY_EXISTS when the reply carries a document,
\* otherwise on to the limit check (user.create) or to db.create.
CreateLookup(c) ==
    /\ creators[c].pc = "find_one"
    /\ \E existing \in NATSService_request("db.find_one", TRUE,
                         RemoteReplies(db_find_one(Collection(creators[c].kind),
                                                   creators[c].key))) :
          creators' = [creators EXCEPT ![c] =
              IF Truthy(existing.env.data)
              THEN [@ EXCEPT !.pc = "done", !.lookup = existing.env,
                             !.reply = Err("ALREADY_EXISTS")]
              ELSE IF creators[c].kind = "user.create"
              THEN [@ EXCEPT !.pc = "find_by_id", !.lookup = existing.env]
              ELSE [@ EXCEPT !.pc = "create", !.lookup = existing.env]]
    /\ UNCHANGED <<store, org_doc, CreateRest>>

\* handle_create_user: db.find_by_id of the organization returns.
CreateLimit(c) ==
    /\ creators[c].pc = "find_by_id"
    /\ \E org_response \in NATSService_request("db.find_by_id", TRUE,
                               RemoteReplies(db_find_by_id_org)) :
          creators' = [creators EXCEPT ![c] =
              IF org_response.env.success /\ org_response.env.data = NoData
              THEN [@ EXCEPT !.pc = "done", !.reply = InternalError]
              ELSE IF org_response.env.success /\ LimitReached(org_response.env.data)
              THEN [@ EXCEPT !.pc = "done", !.reply = Err("LIMIT_EXCEEDED")]
              ELSE [@ EXCEPT !.pc = "create"]]
    /\ UNCHANGED <<store, org_doc, CreateRest>>

\* db.create of model.dict() returns and the handler responds.
CreateStore(c) ==
    /\ creators[c].pc = "create"
    /\ \E response \in NATSService_request("db.create", ModelDictSerializable,
                                           RemoteReplies({AnyDoc})) :
       \E created \in db_create_effect(response) :
       \E counted \in increment_users(creators[c].kind, response) :
          /\ store' = IF created
                      THEN Append(store, [collection |-> Collection(creators[c].kind),
                                          key |-> creators[c].key])
                      ELSE store
          /\ creators' = [creators EXCEPT ![c] =
                 [@ EXCEPT !.pc = "done",
                           !.reply = IF counted.raised THEN InternalError
                                     ELSE response.env]]
          /\ org_doc' = counted.org
    /\ UNCHANGED CreateRest

CreateNext ==
    \E c \in Creators :
        CreateReceive(c) \/ CreateLookup(c) \/ CreateLimit(c) \/ CreateStore(c)

SpecCreate == CreateInit /\ [][CreateNext]_vars

MaxSessions == 2    \* create_session calls per issued token

\* The instants the session clock takes: from issue on, and around the
\* expiry of what was issued first.
SessionClock == (0..(MaxTime - 1)) \cup {JWT_EXPIRATION_DELTA + t : t \in 0..MaxTime}

\* The identity documents a login can succeed on or be changed into.
SessionAdminDocs ==
    {d \in AdminDocs : /\ d.valid /\ d.locked_until = NoData
                       /\ \E st \in Salts :
                            d.password_hash = AuthService_hash_password(DEFAULT_ADMIN_PASSWORD, st)}

\* AdminSession(...) as create_session builds it at time t.
AdminSession(admin_id, token, t) ==
    [id |-> [session |-> t], admin_id |-> admin_id, token |-> token,
     expires_at |-> t + JWT_EXPIRATION_DELTA, is_active |-> TRUE]

\* AuthService.create_session at time t: the session object, what the call
\* returns (the session or None) and the request it made.
AuthService_create_session(admin_id, token, t) ==
    LET session == AdminSession(admin_id, token, t) IN
    { [session |-> session,
       result  |-> IF rq.env.success THEN session ELSE NoData,
       rq      |-> rq] :
      rq \in NATSService_request("admin.create_session", ModelDictSerializable,
                                 RemoteReplies({AnyDoc})) }

\* What admin.get_session may answer for a token at time t. Nothing in this
\* service answers that subject: the session store is remote and its records
\* are its own, active or not, expired or not.
SessionDocs(token, t) ==
    [id : {[session |-> 0]}, token : {token}, is_active : BOOLEAN,
     expires_at : {t, t + JWT_EXPIRATION_DELTA}]

\* AuthService.validate_session at time t: the verified payload, the session
\* document the store answered with, and the returned value.
AuthService_validate_session(token, t) ==
    UNION {
      IF payload = NoData
      THEN {[payload |-> NoData, session |-> NoData, result |-> NoData]}
      ELSE UNION {
        IF ~response.env.success
        THEN {[payload |-> payload, session |-> NoData, result |-> NoData]}
        ELSE IF ~Truthy(response.env.data) \/ ~response.env.data.is_active
        THEN {[payload |-> payload, session |-> response.env.data, result |-> NoData]}
        ELSE {[payload |-> payload, session |-> response.env.data,
               result |-> IF pb.raised THEN NoData ELSE payload] :
                pb \in NATSService_publish("admin.update_session_activity")}
      : response \in NATSService_request("admin.get_session", TRUE,
                         RemoteReplies({NoData} \cup SessionDocs(token, t))) }
    : payload \in AuthService_verify_token(token, t) }

\* AuthService.logout: one publish, its failure swallowed.
AuthService_logout(token) == NATSService_publish("admin.invalidate_session")

\* The store carrying out admin.invalidate_session for a token.
invalidate_session(sessions, token) ==
    [i \in DOMAIN sessions |->
        IF sessions[i].token = token THEN [sessions[i] EXCEPT !.is_active = FALSE]
        ELSE sessions[i]]

SessionInit ==
    /\ guard_in = Pending /\ guard_out = Pending
    /\ resolve_in = Pending /\ resolve_out = Pending
    /\ msg = NoMsg /\ reply = NoReply /\ sent = <<>>
    /\ now = 0 /\ admin_users \in SessionAdminDocs /\ login_pc = "idle"
    /\ login_in = NoData /\ login_response = NoReply /\ login_result = NoData
    /\ login_pubs = <<>> /\ login_exit = "none"
    /\ logins_started = 0 /\ tokens_returned = 0
    /\ session_calls = 0 /\ session_requests = <<>>
    /\ token_in = Pending /\ token_out = Pending
    /\ request_pc = "idle" /\ request_in = Pending /\ request_out = Pending /\ request_event = "none" /\ request_waited = 0
    /\ inbox = <<>> /\ handled = <<>> /\ loop_alive = TRUE /\ received = 0
    /\ creators = <<>> /\ store = <<>>
    /\ session_issued = NoData /\ session_store = <<>> /\ session_creates = 0 /\ session_last = Pending
    /\ task_queue = <<>> /\ task_running = {} /\ task_done = {} /\ task_accepted = 0 /\ task_login = NoData
    /\ startup = NoData /\ org_doc = NoData

SessionRest == <<taskVars, provisionVars, guardVars, resolveVars, handlerVars, tokenVars, requestVars, dispatchVars,
                 createVars, login_pc, login_in, login_response, login_result, login_pubs,
                 login_exit, logins_started, tokens_returned, session_calls, session_requests>>

\* datetime.utcnow() advances.
SessionTick ==
    /\ \E t \in SessionClock : t > now /\ now' = t
    /\ UNCHANGED <<SessionRest, admin_users, sessionVars, taskVars, provisionVars>>

\* A login that returns a token: authenticate_admin on the stored identity.
SessionLogin ==
    /\ \E rq \in NATSService_request("admin.get_by_email", TRUE,
                     {o.reply : o \in handle_get_admin_by_email(SUPER_ADMIN_EMAIL)}) :
       \E r \in AuthService_authenticate_admin(rq.env, DEFAULT_ADMIN_PASSWORD, now) :
          /\ r.result # NoData
          /\ session_issued' = r.result
    /\ session_creates' = 0
    /\ UNCHANGED <<SessionRest, now, admin_users, session_store, session_last>>

\* The stored identity is updated, suspended or soft-deleted (the db.update
\* of admin.update and admin.delete, or another writer of the store).
IdentityChanged ==
    /\ \E d \in SessionAdminDocs : d # admin_users /\ admin_users' = d
    /\ UNCHANGED <<SessionRest, now, sessionVars, taskVars, provisionVars>>

\* create_session is called with the issued token; the store creates the
\* session when the request reaches it and it accepts it.
SessionCreate ==
    /\ session_issued # NoData
    /\ session_creates < MaxSessions
    /\ \E c \in AuthService_create_session(session_issued.admin.id, session_issued.token, now) :
       \E stored \in db_create_effect(c.rq) :
          /\ session_store' = IF stored THEN Append(session_store, c.session)
                                        ELSE session_store
          /\ session_last' = [op |-> "create_session", issued |-> session_issued,
                              at |-> now, result |-> c.result]
    /\ session_creates' = session_creates + 1
    /\ UNCHANGED <<SessionRest, now, admin_users, session_issued>>

\* validate_session is called with the issued token.
SessionValidate ==
    /\ session_issued # NoData
    /\ \E v \in AuthService_validate_session(session_issued.token, now) :
          session_last' = [op |-> "validate_session", issued |-> session_issued,
                           at |-> now, payload |-> v.payload, session |-> v.session,
                           result |-> v.result]
    /\ UNCHANGED <<SessionRest, now, admin_users, session_issued, session_store,
                   session_creates>>

\* logout is called with the issued token; a delivered invalidation is carried
\* out by the store.
SessionLogout ==
    /\ session_issued # NoData
    /\ \E pb \in AuthService_logout(session_issued.token) :
          /\ session_store' = IF pb.raised THEN session_store
                              ELSE invalidate_session(session_store, session_issued.token)
          /\ session_last' = [op |-> "logout", issued |-> session_issued,
                              at |-> now, result |-> NoData]
    /\ UNCHANGED <<SessionRest, now, admin_users, session_issued, session_creates>>

SessionNext ==
    \/ SessionTick \/ SessionLogin \/ IdentityChanged
    \/ SessionCreate \/ SessionValidate \/ SessionLogout

SpecSession == SessionInit /\ [][SessionNext]_vars

Validated == session_last # Pending /\ session_last.op = "validate_session"

(* C22: validate_session returns None whenever the session record the store  *)
(* answered with has an expires_at that is not after the current time, even  *)
(* when the record's is_active is still true.                                *)
C22_ExpiredSessionInert ==
    (Validated /\ Truthy(session_last.session)
               /\ session_last.session.expires_at <= session_last.at)
        => session_last.result = NoData

(* C28: verifying an issued token before its expiry returns the id, role,    *)
(* permissions and super-admin flag the login captured, whatever the stored  *)
(* identity has been changed into since.                                     *)
C28_TokenClaimsSnapshot ==
    (Validated /\ session_last.at < session_last.issued.token.payload.exp) =>
        /\ session_last.payload # NoData
        /\ session_last.payload.admin_id = session_last.issued.admin.id
        /\ session_last.payload.role = session_last.issued.admin.role
        /\ session_last.payload.permissions = session_last.issued.admin.permissions
        /\ session_last.payload.is_super_admin = session_last.issued.admin.is_super_admin

\* An unexpired token was verified after the identity's role was changed and
\* the identity was deactivated.
C28_Witness ==
    /\ Validated /\ session_last.at < session_last.issued.token.payload.exp
    /\ session_last.payload # NoData
    /\ admin_users.role # session_last.issued.admin.role
    /\ ~admin_users.is_active

(* C36: validate_session returns the token's claims exactly when the token   *)
(* verifies and the store answered with a session whose is_active is true;   *)
(* a failure to publish the last-activity update does not make a valid       *)
(* session invalid.                                                          *)
C36_ValidIffVerifiedAndActive ==
    Validated =>
        ((session_last.result # NoData /\ session_last.result = session_last.payload)
            <=> /\ session_last.payload # NoData
                /\ Truthy(session_last.session)
                /\ session_last.session.is_active)


(***************************************************************************)
(* Interleaving of handlers: the subscriptions NATSService.subscribe        *)
(* registers, each delivering its messages to its callback, while          *)
(* authenticate_admin awaits an admin.get_by_email lookup that this same   *)
(* service answers.                                                        *)
(***************************************************************************)
MaxMessages == 3    \* inbound messages accepted per behaviour

\* Two of the subscriptions: the one that serves login's lookup and another.
TaskSubjects == {"admin.get_by_email", "admin.list"}

\* A subscription that starts its callback for every message on arrival,
\* whether or not an earlier callback is still suspended.
Dispatchable_PerMessage(subject) == task_queue[subject] # <<>>

\* nc.subscribe(subject, cb=message_handler): the client runs one task per
\* subscription, which takes the next message from the subscription's queue
\* only after the awaited callback of the previous one has returned.
Dispatchable(subject) ==
    /\ task_queue[subject] # <<>>
    /\ \A h \in task_running : h.subject # subject

TaskInit ==
    /\ guard_in = Pending /\ guard_out = Pending
    /\ resolve_in = Pending /\ resolve_out = Pending
    /\ msg = NoMsg /\ reply = NoReply /\ sent = <<>>
    /\ now = 0 /\ admin_users = NoData /\ login_pc = "idle"
    /\ login_in = NoData /\ login_response = NoReply /\ login_result = NoData
    /\ login_pubs = <<>> /\ login_exit = "none"
    /\ logins_started = 0 /\ tokens_returned = 0
    /\ session_calls = 0 /\ session_requests = <<>>
    /\ token_in = Pending /\ token_out = Pending
    /\ request_pc = "idle" /\ request_in = Pending /\ request_out = Pending /\ request_event = "none" /\ request_waited = 0
    /\ inbox = <<>> /\ handled = <<>> /\ loop_alive = TRUE /\ received = 0
    /\ creators = <<>> /\ store = <<>>
    /\ session_issued = NoData /\ session_store = <<>> /\ session_creates = 0 /\ session_last = Pending
    /\ task_queue = [s \in TaskSubjects |-> <<>>]
    /\ task_running = {} /\ task_done = {} /\ task_accepted = 0
    /\ task_login = [pc |-> "idle", id |-> 0, response |-> NoReply]
    /\ startup = NoData /\ org_doc = NoData

TaskRest == <<provisionVars, guardVars, resolveVars, handlerVars, loginVars, tokenVars, requestVars,
              dispatchVars, createVars, sessionVars>>

\* The client reads an inbound message and puts it on its subscription's
\* queue.
TaskReceive(subject) ==
    /\ task_accepted < MaxMessages
    /\ task_accepted' = task_accepted + 1
    /\ task_queue' = [task_queue EXCEPT ![subject] = Append(@, task_accepted + 1)]
    /\ UNCHANGED <<TaskRest, task_running, task_done, task_login>>

\* authenticate_admin sends its admin.get_by_email request; the bus delivers
\* it to this service's own subscription.
TaskLoginStart ==
    /\ task_login.pc = "idle"
    /\ task_accepted < MaxMessages
    /\ task_accepted' = task_accepted + 1
    /\ task_queue' = [task_queue EXCEPT !["admin.get_by_email"] = Append(@, task_accepted + 1)]
    /\ task_login' = [pc |-> "lookup", id |-> task_accepted + 1, response |-> NoReply]
    /\ UNCHANGED <<TaskRest, task_running, task_done>>

\* The subscription's task calls message_handler for its next message; the
\* handler runs to its nested request (db.find_one, db.find) and is suspended.
TaskDispatch(subject) ==
    /\ Dispatchable(subject)
    /\ task_running' = task_running \cup {[id |-> Head(task_queue[subject]), subject |-> subject]}
    /\ task_queue' = [task_queue EXCEPT ![subject] = Tail(@)]
    /\ UNCHANGED <<TaskRest, task_done, task_accepted, task_login>>

\* A suspended handler's nested request returns (a reply, TIMEOUT after its
\* five seconds, or REQUEST_FAILED); the handler responds and returns. The
\* response of login's lookup reaches authenticate_admin if it still waits.
TaskReturn(h) ==
    /\ h \in task_running
    /\ task_running' = task_running \ {h}
    /\ task_done' = task_done \cup {h.id}
    /\ \E rq \in NATSService_request(IF h.subject = "admin.list" THEN "db.find" ELSE "db.find_one",
                                     TRUE, RemoteReplies({NoData, AnyDoc})) :
          task_login' = IF task_login.pc = "lookup" /\ task_login.id = h.id
                        THEN [task_login EXCEPT !.pc = "returned", !.response = rq.env]
                        ELSE task_login
    /\ UNCHANGED <<TaskRest, task_queue, task_accepted>>

\* The lookup's own timeout elapses before its reply: authenticate_admin gets
\* the TIMEOUT envelope and returns None.
TaskLoginTimeout ==
    /\ task_login.pc = "lookup"
    /\ task_login' = [task_login EXCEPT !.pc = "returned", !.response = TimeoutEnvelope]
    /\ UNCHANGED <<TaskRest, task_queue, task_running, task_done, task_accepted>>

TaskNext ==
    \/ \E subject \in TaskSubjects : TaskReceive(subject)
    \/ TaskLoginStart
    \/ \E subject \in TaskSubjects : TaskDispatch(subject)
    \/ \E h \in task_running : TaskReturn(h)
    \/ TaskLoginTimeout

SpecTasks == TaskInit /\ [][TaskNext]_vars

\* The event loop runs every task that can run; every nested request returns
\* within its timeout.
SpecTasksFair ==
    /\ SpecTasks
    /\ \A subject \in TaskSubjects : WF_vars(TaskDispatch(subject))
    /\ WF_vars(\E h \in task_running : TaskReturn(h))
    /\ WF_vars(TaskLoginTimeout)

\* Some handler is suspended in its nested request.
Suspended == task_running # {}
Queued(subject) == task_queue[subject] # <<>>
Busy(subject) == \E h \in task_running : h.subject = subject
Accepted(id) == id <= task_accepted

SuperAdminDoc == [collection |-> "admin_users", key |-> SUPER_ADMIN_EMAIL]

StartupInit ==
    /\ guard_in = Pending /\ guard_out = Pending
    /\ resolve_in = Pending /\ resolve_out = Pending
    /\ msg = NoMsg /\ reply = NoReply /\ sent = <<>>
    /\ now = 0 /\ admin_users = NoData /\ login_pc = "idle"
    /\ login_in = NoData /\ login_response = NoReply /\ login_result = NoData
    /\ login_pubs = <<>> /\ login_exit = "none"
    /\ logins_started = 0 /\ tokens_returned = 0
    /\ session_calls = 0 /\ session_requests = <<>>
    /\ token_in = Pending /\ token_out = Pending
    /\ request_pc = "idle" /\ request_in = Pending /\ request_out = Pending /\ request_event = "none" /\ request_waited = 0
    /\ inbox = <<>> /\ handled = <<>> /\ loop_alive = TRUE /\ received = 0
    /\ creators = [c \in Creators |-> IdleCreator]
    /\ store \in {<<>>, <<SuperAdminDoc>>}
    /\ session_issued = NoData /\ session_store = <<>> /\ session_creates = 0 /\ session_last = Pending
    /\ task_queue = <<>> /\ task_running = {} /\ task_done = {} /\ task_accepted = 0 /\ task_login = NoData
    /\ startup = [pc |-> "find_one", lookup |-> NoReply, response |-> NoReply]
    /\ org_doc = NoData

StartupRest == <<sessionVars, taskVars, guardVars, resolveVars, handlerVars, loginVars, tokenVars,
                 requestVars, dispatchVars>>

\* create_super_admin: db.find_one for an active super admin returns; a
\* response without data goes on to db.create.
StartupLookup ==
    /\ startup # NoData /\ startup.pc = "find_one"
    /\ \E response \in NATSService_request("db.find_one", TRUE,
                           RemoteReplies(db_find_one("admin_users", SUPER_ADMIN_EMAIL))) :
          startup' = [startup EXCEPT !.lookup = response.env,
                                     !.pc = IF Truthy(response.env.data) THEN "done"
                                            ELSE "create"]
    /\ UNCHANGED <<StartupRest, creators, store, org_doc>>

\* create_super_admin: db.create of the admin_data dict returns.
StartupCreate ==
    /\ startup # NoData /\ startup.pc = "create"
    /\ \E response \in NATSService_request("db.create", TRUE, RemoteReplies({AnyDoc})) :
       \E created \in db_create_effect(response) :
          /\ store' = IF created THEN Append(store, SuperAdminDoc) ELSE store
          /\ startup' = [startup EXCEPT !.pc = "done", !.response = response.env]
    /\ UNCHANGED <<StartupRest, creators, org_doc>>

\* The controllers are subscribed once create_super_admin has returned.
StartupServe ==
    /\ startup # NoData /\ startup.pc = "done"
    /\ CreateNext

StartupNext == StartupLookup \/ StartupCreate \/ StartupServe

SpecStartup == StartupInit /\ [][StartupNext]_vars

\* The step creates a document in the store.
Creates == Len(store') > Len(store)
\* The existence lookup was answered: success, and no document.
Absent(lookup) == lookup = Ok(NoData)

(* C34: a document is created only after the existence lookup was answered   *)
(* with no matching record: after a lookup that returned TIMEOUT or          *)
(* REQUEST_FAILED neither the create handlers nor create_super_admin create  *)
(* a record.                                                                 *)
C34_CreateOnlyAfterAbsent ==
    [][ Creates =>
          \/ startup.pc = "create" /\ startup'.pc = "done" /\ Absent(startup.lookup)
          \/ \E c \in Creators :
                /\ creators[c].pc = "create" /\ creators'[c].pc = "done"
                /\ Absent(creators[c].lookup) ]_vars


(***************************************************************************)
(* The user limit: handle_create_user against one organization whose       *)
(* counters the store keeps, the increments travelling as publishes.       *)
(***************************************************************************)
MaxUsers == 1    \* the organization's max_users goes up to this

LimitInit ==
    /\ guard_in = Pending /\ guard_out = Pending
    /\ resolve_in = Pending /\ resolve_out = Pending
    /\ msg = NoMsg /\ reply = NoReply /\ sent = <<>>
    /\ now = 0 /\ admin_users = NoData /\ login_pc = "idle"
    /\ login_in = NoData /\ login_response = NoReply /\ login_result = NoData
    /\ login_pubs = <<>> /\ login_exit = "none"
    /\ logins_started = 0 /\ tokens_returned = 0
    /\ session_calls = 0 /\ session_requests = <<>>
    /\ token_in = Pending /\ token_out = Pending
    /\ request_pc = "idle" /\ request_in = Pending /\ request_out = Pending /\ request_event = "none" /\ request_waited = 0
    /\ inbox = <<>> /\ handled = <<>> /\ loop_alive = TRUE /\ received = 0
    /\ creators = [c \in Creators |-> IdleCreator]
    /\ store = <<>>
    /\ session_issued = NoData /\ session_store = <<>> /\ session_creates = 0 /\ session_last = Pending
    /\ task_queue = <<>> /\ task_running = {} /\ task_done = {} /\ task_accepted = 0 /\ task_login = NoData
    /\ startup = NoData
    /\ org_doc \in {[existing |-> n, current_users |-> n, max_users |-> m] :
                       n \in 0..MaxUsers, m \in 1..MaxUsers}

SpecLimit == LimitInit /\ [][CreateNext]_vars

\* The users the create requests have created in the organization.
UsersCreated == {i \in 1..Len(store) : store[i].collection = "users"}

DeleteAdminDocs ==
    {[d EXCEPT !.id = i] : d \in {e \in SessionAdminDocs : e.is_active},
                           i \in AdminIds \cup {"admin-2"}}

DeleteInit ==
    /\ guard_in = Pending /\ guard_out = Pending
    /\ resolve_in = Pending /\ resolve_out = Pending
    /\ msg = NoMsg /\ reply = NoReply /\ sent = <<>>
    /\ now = 0 /\ admin_users \in DeleteAdminDocs /\ login_pc = "idle"
    /\ login_in = NoData /\ login_response = NoReply /\ login_result = NoData
    /\ login_pubs = <<>> /\ login_exit = "none"
    /\ logins_started = 0 /\ tokens_returned = 0
    /\ session_calls = 0 /\ session_requests = <<>>
    /\ token_in = Pending /\ token_out = Pending
    /\ request_pc = "idle" /\ request_in = Pending /\ request_out = Pending /\ request_event = "none" /\ request_waited = 0
    /\ inbox = <<>> /\ handled = <<>> /\ loop_alive = TRUE /\ received = 0
    /\ creators = <<>> /\ store = <<>>
    /\ session_issued = NoData /\ session_store = <<>> /\ session_creates = 0 /\ session_last = Pending
    /\ task_queue = <<>> /\ task_running = {} /\ task_done = {} /\ task_accepted = 0 /\ task_login = NoData
    /\ startup = NoData /\ org_doc = NoData

DeleteRest == <<guardVars, resolveVars, tokenVars, requestVars, dispatchVars, createVars,
                sessionVars, taskVars, provisionVars, now, login_pc, login_pubs,
                session_calls, session_requests>>

\* The db.update of a handled admin.delete, as the store carried it out: done
\* when the store answered success (the handler went on to publish), done or
\* not when the handler saw a timeout, not done otherwise.
db_update_effect(o) ==
    IF o.sent = <<>> THEN {FALSE}
    ELSE IF Len(o.sent) > 1 THEN {TRUE}
    ELSE IF o.reply = TimeoutEnvelope THEN {TRUE, FALSE}
    ELSE {FALSE}

\* admin.delete is handled; a db.update the store carried out deactivates
\* the stored identity it names.
DeleteAdmin ==
    /\ msg = NoMsg
    /\ \E data \in Plain(AdminMessages) : \E o \in handle_delete_admin(data) :
       \E done \in db_update_effect(o) :
          /\ msg' = [subject |-> "admin.delete", data |-> data, org_id |-> o.org_id]
          /\ reply' = o.reply
          /\ sent' = o.sent
          /\ admin_users' = IF done /\ data.admin_id = admin_users.id
                            THEN [admin_users EXCEPT !.is_active = FALSE]
                            ELSE admin_users
    /\ UNCHANGED <<DeleteRest, login_in, login_response, login_result, login_exit,
                   logins_started, tokens_returned>>

\* A login for X's email with X's password: the lookup through
\* admin.get_by_email, then authenticate_admin on what it returned.
DeleteLogin ==
    /\ logins_started < MaxLogins
    /\ \E rq \in NATSService_request("admin.get_by_email", TRUE,
                     {o.reply : o \in handle_get_admin_by_email(admin_users.email)}) :
       \E r \in AuthService_authenticate_admin(rq.env, DEFAULT_ADMIN_PASSWORD, now) :
          /\ login_in' = [email |-> admin_users.email, password |-> DEFAULT_ADMIN_PASSWORD]
          /\ login_response' = rq.env
          /\ login_result' = r.result
          /\ login_exit' = r.exit
          /\ tokens_returned' = tokens_returned + (IF r.result # NoData THEN 1 ELSE 0)
    /\ logins_started' = logins_started + 1
    /\ UNCHANGED <<DeleteRest, handlerVars, admin_users>>

DeleteNext == DeleteAdmin \/ DeleteLogin

SpecDelete == DeleteInit /\ [][DeleteNext]_vars

DeleteHandled == Handled /\ msg.subject = "admin.delete"
\* The admin.delete of the stored identity X was answered with success.
DeletedX == DeleteHandled /\ reply.success /\ msg.data.admin_id = admin_users.id
\* Entries of the handler's log that left the process as a publish, or as the
\* audit request.
Announced ==
    {i \in 1..Len(sent) : \/ sent[i].op = "publish" /\ sent[i].ok
                          \/ sent[i].subject = "audit.create"}

SelfDelete == DeleteHandled /\ msg.data.requester.admin_id = msg.data.admin_id

(* C38: admin.delete never deactivates the requester's own account: a        *)
(* request whose admin_id equals the requester's admin_id gets an error      *)
(* reply, sends no db.update and no publish and leaves the stored identity   *)
(* active; a requester that is not a super admin gets FORBIDDEN before that  *)
(* check, with nothing sent.                                                 *)
C38_NoSelfDelete ==
    /\ SelfDelete =>
          /\ ~reply.success /\ sent = <<>>
          /\ msg.data.admin_id = admin_users.id => admin_users.is_active
    /\ (DeleteHandled /\ ~msg.data.requester.is_super_admin) =>
          reply = Forbidden /\ sent = <<>>

\* A super admin asked for the deletion of the stored identity, which is its
\* own account, and was refused; the account still logs in.
C38_Witness ==
    /\ SelfDelete /\ msg.data.requester.is_super_admin
    /\ msg.data.admin_id = admin_users.id
    /\ reply # Forbidden /\ ~reply.success
    /\ login_result # NoData


(***************************************************************************)
(* Suspending an organization: handle_suspend_organization, the            *)
(* user.suspend_all message it publishes, and handle_suspend_all, against  *)
(* one stored organization and its users.                                  *)
(***************************************************************************)
SuspendInit ==
    /\ guard_in = Pending /\ guard_out = Pending
    /\ resolve_in = Pending /\ resolve_out = Pending
    /\ msg = NoMsg /\ reply = NoReply /\ sent = <<>>
    /\ now = 0 /\ admin_users = NoData /\ login_pc = "idle"
    /\ login_in = NoData /\ login_response = NoReply /\ login_result = NoData
    /\ login_pubs = <<>> /\ login_exit = "none"
    /\ logins_started = 0 /\ tokens_returned = 0
    /\ session_calls = 0 /\ session_requests = <<>>
    /\ token_in = Pending /\ token_out = Pending
    /\ request_pc = "idle" /\ request_in = Pending /\ request_out = Pending /\ request_event = "none" /\ request_waited = 0
    /\ inbox = <<>> /\ handled = <<>> /\ loop_alive = TRUE /\ received = 0
    /\ creators = <<>> /\ store = <<>>
    /\ session_issued = NoData /\ session_store = <<>> /\ session_creates = 0 /\ session_last = Pending
    /\ task_queue = <<>> /\ task_running = {} /\ task_done = {} /\ task_accepted = 0 /\ task_login = NoData
    /\ startup = NoData
    /\ org_doc \in [id : {"org-1"}, status : {"active"},
                    users : [UserIds -> {"active", "inactive"}]]

SuspendRest == <<guardVars, resolveVars, loginVars, tokenVars, requestVars, createVars,
                 sessionVars, taskVars, startup, loop_alive, received>>

\* The user.suspend_all messages a handled organization.suspend put on the bus.
suspend_all_published(o) ==
    IF \E i \in 1..Len(o.sent) : o.sent[i].subject = "user.suspend_all" /\ o.sent[i].ok
    THEN <<[subject |-> "user.suspend_all", payload |-> "object", org_id |-> o.org_id]>>
    ELSE <<>>

\* organization.suspend is handled; a db.update the store carried out marks
\* the organization it names suspended, and a published user.suspend_all is
\* on its way to the subscription of UserController.
SuspendOrganization ==
    /\ msg = NoMsg
    /\ \E data \in Plain(OrgMessages) : \E o \in handle_suspend_organization(data) :
       \E done \in db_update_effect(o) :
          /\ msg' = [subject |-> "organization.suspend", data |-> data, org_id |-> o.org_id]
          /\ reply' = o.reply
          /\ sent' = o.sent
          /\ org_doc' = IF done /\ data.org_id = org_doc.id
                        THEN [org_doc EXCEPT !.status = "suspended"]
                        ELSE org_doc
          /\ inbox' = inbox \o suspend_all_published(o)
    /\ UNCHANGED <<SuspendRest, handled>>

\* db.update_many {org_id, status: ACTIVE} -> SUSPENDED as the store carries it
\* out.
db_update_many(users) ==
    [u \in DOMAIN users |-> IF users[u] = "active" THEN "suspended" ELSE users[u]]

\* The subscription delivers user.suspend_all to handle_suspend_all. The
\* handler does not read the answer to db.update_many: the store has carried
\* the update out, or has not (error answer, or no answer in time).
SuspendAllUsers ==
    /\ inbox # <<>>
    /\ \E r \in message_handler(Head(inbox)) :
       \E done \in IF r.sent = <<>> THEN {FALSE} ELSE BOOLEAN :
          /\ handled' = Append(handled, r)
          /\ org_doc' = IF done /\ Head(inbox).org_id = org_doc.id
                        THEN [org_doc EXCEPT !.users = db_update_many(@)]
                        ELSE org_doc
    /\ inbox' = Tail(inbox)
    /\ UNCHANGED <<SuspendRest, handlerVars>>

SuspendNext == SuspendOrganization \/ SuspendAllUsers

SpecSuspend == SuspendInit /\ [][SuspendNext]_vars
\* The client keeps calling the callback while messages are pending.
SpecSuspendFair == SpecSuspend /\ WF_vars(SuspendAllUsers)

SuspendHandled == Handled /\ msg.subject = "organization.suspend"
\* The suspension of the stored organization was published to the users.
Cascading ==
    /\ SuspendHandled /\ msg.org_id = org_doc.id
    /\ \E i \in 1..Len(sent) : sent[i].subject = "user.suspend_all" /\ sent[i].ok
\* No user of the organization is active any more and the session invalidation
\* was published.
CascadeDone ==
    /\ \A u \in DOMAIN org_doc.users : org_doc.users[u] # "active"
    /\ \E k \in 1..Len(handled) : \E i \in 1..Len(handled[k].sent) :
          /\ handled[k].sent[i].subject = "auth.invalidate_org_sessions"
          /\ handled[k].sent[i].ok

(* C39: organization.suspend publishes user.suspend_all and                  *)
(* organization.suspended only after the store reported the update as        *)
(* successful, and a failed suspension publishes nothing; once published,    *)
(* under fair delivery every active user of the organization is eventually   *)
(* marked suspended and auth.invalidate_org_sessions is published.           *)
C39_SuspensionCascades ==
    /\ [](SuspendHandled =>
             /\ (\E i \in 1..Len(sent) : sent[i].op = "publish") =>
                   /\ sent[1].subject = "db.update"
                   /\ reply.success \/ reply = InternalError
             /\ (~reply.success /\ reply # InternalError) =>
                   \A i \in 1..Len(sent) : sent[i].op # "publish")
    /\ (Cascading ~> CascadeDone)

====
